---------------------------- MODULE Spec2Model ----------------------------
(***************************************************************************)
(* A model of shp2geojson: the .shp decoder (SHPParser), the .dbf decoder  *)
(* (DBFParser), the feature assembler (toGeojson) and the loadshp driver   *)
(* with its module-level projection state.                                 *)
(*                                                                         *)
(* Binary buffers are sequences of bytes (offset o of a DataView is        *)
(* element o+1 of the sequence).  A float64 is its IEEE-754 bit pattern,   *)
(* written as the 8 bytes from the sign/exponent byte down.  Thrown errors *)
(* are records; a call's outcome is [ok |-> TRUE, ...] or                  *)
(* [ok |-> FALSE, err |-> e].                                              *)
(***************************************************************************)
EXTENDS Integers, Sequences, FiniteSets, TLC

VARIABLES
  \* SHPParser.parse, one loop iteration per step
  shpSrc,        \* what the buffer was encoded from (input description)
  arrayBuffer,   \* the .shp bytes
  shpPc,         \* "start" | "loop" | "returned" | "thrown" | "idle"
  idx,           \* the record cursor of SHPParser.parse
  shpFile,       \* the SHPFile under construction
  shpErr         \* the error thrown by SHPParser.parse, if any

VARIABLES
  \* the module-level state of preview.ts
  EPSGUser,      \* the source projection TransCoord reads

  \* toGeojson, one forEach callback per step
  geoSrc,        \* what the inputs were built from (input description)
  geoShp,        \* the SHPFile argument
  geoDbf,        \* the DBFFile argument
  geoPc,         \* "start" | "forEach" | "returned" | "thrown" | "idle"
  geoI,          \* the forEach index
  geojson,       \* the FeatureCollection under construction
  geoErr,        \* the error thrown by toGeojson, if any
  transCalls     \* calls of TransCoord made so far by this toGeojson call

VARIABLES
  \* more module-level and browser state
  defs,          \* what proj4.defs holds under "EPSGUSER"
  objectURLs,    \* the object URLs created and not revoked

  \* loadshp, one continuation per step, for each call in flight
  pool,          \* the configs the page may pass to loadshp
  callsLeft,     \* how many more times the page calls loadshp
  overlap,       \* whether two calls have been in flight together
  callPc,        \* where each call is suspended
  config,        \* each call's ShpConfig (the archive stands for the url)
  shpBuffer,     \* each call's .shp bytes
  loadedShp,     \* each call's SHPFile
  dbfBuffer,     \* each call's .dbf bytes
  loadedDbf,     \* each call's DBFFile
  settled        \* what each call's promise settled with

VARIABLES
  \* DBFParser.parse, one phase or one record per step
  dbfSrc,        \* what the buffer was built from (input description)
  dbfBytes,      \* the .dbf bytes (arrayBuffer)
  dbfResponse,   \* the decoded text of the same bytes (response)
  dbfPc,         \* "start" | "names" | "fields" | "records" | "returned" | "thrown" | "idle"
  dbfFile,       \* the DBFFile under construction
  dbfOffset,     \* offset
  dbfNames,      \* charString
  dbfText,       \* responseText
  dbfErr         \* the error thrown by DBFParser.parse, if any

shpVars == <<shpSrc, arrayBuffer, shpPc, idx, shpFile, shpErr>>

dbfVars ==
  <<dbfSrc, dbfBytes, dbfResponse, dbfPc, dbfFile, dbfOffset, dbfNames, dbfText, dbfErr>>

geoVars == <<geoSrc, geoShp, geoDbf, geoPc, geoI, geojson, geoErr, transCalls>>

loadVars ==
  <<defs, objectURLs, pool, callsLeft, overlap, callPc, config, shpBuffer, loadedShp,
    dbfBuffer, loadedDbf, settled>>

vars == <<shpVars, EPSGUser, geoVars, loadVars, dbfVars>>

-----------------------------------------------------------------------------
(* Bounds of the model *)

MaxShpRecs == 2

MaxGeoRecs == 2

MaxPoints == 2

MaxParts == 2

MaxCalls == 2

-----------------------------------------------------------------------------
(* Generic helpers *)

SeqsUpTo(S, n) == UNION { [1..k -> S] : k \in 0..n }

Ok(v) == [ok |-> TRUE, v |-> v]

Throw(e) == [ok |-> FALSE, err |-> e]

RECURSIVE Flatten(_)
Flatten(ss) == IF ss = <<>> THEN <<>> ELSE Head(ss) \o Flatten(Tail(ss))

-----------------------------------------------------------------------------
(* DataView reads *)

\* DataView throws a RangeError for a read that is not wholly inside the buffer
InRange(buf, at, n) == at >= 0 /\ at + n <= Len(buf)

RangeError == [name |-> "RangeError", message |-> "Offset is outside the bounds of the DataView"]

\* four bytes, most significant first, as a signed 32-bit integer
ToInt32(b3, b2, b1, b0) ==
  (IF b3 >= 128 THEN b3 - 256 ELSE b3) * 16777216 + b2 * 65536 + b1 * 256 + b0

getInt32(buf, at, littleEndian) ==
  IF littleEndian
    THEN ToInt32(buf[at + 4], buf[at + 3], buf[at + 2], buf[at + 1])
    ELSE ToInt32(buf[at + 1], buf[at + 2], buf[at + 3], buf[at + 4])

\* dv.getFloat64(at, true): the bit pattern, sign byte first
getFloat64(buf, at) ==
  <<buf[at + 8], buf[at + 7], buf[at + 6], buf[at + 5],
    buf[at + 4], buf[at + 3], buf[at + 2], buf[at + 1]>>

getUint8(buf, at) == buf[at + 1]

-----------------------------------------------------------------------------
(* Shape type codes *)

SHP_NULL == 0
SHP_POINT == 1
SHP_POLYLINE == 3
SHP_POLYGON == 5
SHP_MULTIPOINT == 8

SupportedTypes == {SHP_NULL, SHP_POINT, SHP_POLYLINE, SHP_POLYGON, SHP_MULTIPOINT}

NotSupportedShapeType ==
  [n \in {11, 13, 15, 18, 21, 23, 25, 28, 31} |->
     CASE n = 11 -> "PointZ"
       [] n = 13 -> "PolylineZ"
       [] n = 15 -> "PolygonZ"
       [] n = 18 -> "MultiPointZ"
       [] n = 21 -> "PointM"
       [] n = 23 -> "PolylineM"
       [] n = 25 -> "PolygonM"
       [] n = 28 -> "MultiPointM"
       [] n = 31 -> "MultiPatch"]

FILE_CODE == 9994

Undefined == [undefined |-> TRUE]

-----------------------------------------------------------------------------
(* SHPParser.parseShape *)

\* new Int32Array(n) / new Float64Array(n) followed by n reads of w bytes from
\* `at`: a negative n cannot be allocated and a read past the end throws.
ArrayReadable(buf, at, n, w) ==
  /\ n >= 0
  /\ at >= 0
  /\ at <= Len(buf)
  /\ n <= (Len(buf) - at) \div w

parsePoly(buf, at, shapeType) ==
  IF ~InRange(buf, at, 40) THEN Throw(RangeError)
  ELSE
    LET minX == getFloat64(buf, at)
        minY == getFloat64(buf, at + 8)
        maxX == getFloat64(buf, at + 16)
        maxY == getFloat64(buf, at + 24)
        partCount == getInt32(buf, at + 32, TRUE)
        pointCount == getInt32(buf, at + 36, TRUE)
        partsAt == at + 40
    IN
      IF ~ArrayReadable(buf, partsAt, partCount, 4) THEN Throw(RangeError)
      ELSE
        LET parts == [i \in 1..partCount |-> getInt32(buf, partsAt + 4 * (i - 1), TRUE)]
            pointsAt == partsAt + 4 * partCount
        IN
          IF pointCount < 0 \/ ~ArrayReadable(buf, pointsAt, pointCount, 16)
            THEN Throw(RangeError)
            ELSE
              LET points == [i \in 1..(pointCount * 2) |->
                               getFloat64(buf, pointsAt + 8 * (i - 1))]
              IN Ok([type |-> shapeType,
                     content |-> [minX |-> minX, minY |-> minY,
                                  maxX |-> maxX, maxY |-> maxY,
                                  parts |-> parts, points |-> points]])

\* a variant of parseShape without lines 243-256: the Z, M and MultiPatch codes
\* fall through to the default branch
parseShapeMutNoUnsupported(buf, at, length) ==
  IF ~InRange(buf, at, 4) THEN Throw(RangeError)
  ELSE
    LET shapeType == getInt32(buf, at, TRUE)
        p == at + 4
    IN
      CASE shapeType = SHP_NULL ->
             Ok([type |-> SHP_NULL, content |-> Undefined])
        [] shapeType = SHP_POINT ->
             IF ~InRange(buf, p, 16) THEN Throw(RangeError)
             ELSE Ok([type |-> SHP_POINT,
                      content |-> [x |-> getFloat64(buf, p), y |-> getFloat64(buf, p + 8)]])
        [] shapeType \in {SHP_MULTIPOINT, SHP_POLYLINE, SHP_POLYGON} ->
             parsePoly(buf, p, shapeType)
        [] OTHER ->
             Throw([name |-> "Error", message |-> "Unknown shape type",
                    at |-> p - 4, code |-> shapeType])

\* a variant of parseShape whose default branch throws what the unsupported
\* branch throws
parseShapeMutSameError(buf, at, length) ==
  IF ~InRange(buf, at, 4) THEN Throw(RangeError)
  ELSE
    LET shapeType == getInt32(buf, at, TRUE)
        p == at + 4
    IN
      CASE shapeType = SHP_NULL ->
             Ok([type |-> SHP_NULL, content |-> Undefined])
        [] shapeType = SHP_POINT ->
             IF ~InRange(buf, p, 16) THEN Throw(RangeError)
             ELSE Ok([type |-> SHP_POINT,
                      content |-> [x |-> getFloat64(buf, p), y |-> getFloat64(buf, p + 8)]])
        [] shapeType \in {SHP_MULTIPOINT, SHP_POLYLINE, SHP_POLYGON} ->
             parsePoly(buf, p, shapeType)
        [] shapeType \in DOMAIN NotSupportedShapeType ->
             Throw([name |-> "Error", message |-> "Shape type not supported",
                    code |-> shapeType, label |-> NotSupportedShapeType[shapeType]])
        [] OTHER ->
             Throw([name |-> "Error", message |-> "Shape type not supported",
                    code |-> shapeType, label |-> "Unknown"])

parseShape(buf, at, length) ==
  IF ~InRange(buf, at, 4) THEN Throw(RangeError)
  ELSE
    LET shapeType == getInt32(buf, at, TRUE)
        p == at + 4
    IN
      CASE shapeType = SHP_NULL ->
             Ok([type |-> SHP_NULL, content |-> Undefined])
        [] shapeType = SHP_POINT ->
             IF ~InRange(buf, p, 16) THEN Throw(RangeError)
             ELSE Ok([type |-> SHP_POINT,
                      content |-> [x |-> getFloat64(buf, p), y |-> getFloat64(buf, p + 8)]])
        [] shapeType \in {SHP_MULTIPOINT, SHP_POLYLINE, SHP_POLYGON} ->
             parsePoly(buf, p, shapeType)
        [] shapeType \in DOMAIN NotSupportedShapeType ->
             Throw([name |-> "Error", message |-> "Shape type not supported",
                    code |-> shapeType, label |-> NotSupportedShapeType[shapeType]])
        [] OTHER ->
             Throw([name |-> "Error", message |-> "Unknown shape type",
                    at |-> p - 4, code |-> shapeType])

-----------------------------------------------------------------------------
(* SHPParser.parse *)

\* a variant of parseHeader that reads the whole 100-byte header before it tests
\* the file code
parseHeaderMutReadFirst(buf) ==
  IF ~InRange(buf, 0, 100) THEN Throw(RangeError)
  ELSE
    LET fileCode == getInt32(buf, 0, FALSE) IN
      IF fileCode # FILE_CODE
        THEN Throw([name |-> "Error", message |-> "Unknown file code", code |-> fileCode])
      ELSE
        LET wordLength == getInt32(buf, 24, FALSE) IN
          Ok([fileCode |-> fileCode,
              wordLength |-> wordLength,
              byteLength |-> wordLength * 2,
              version |-> getInt32(buf, 28, TRUE),
              shapeType |-> getInt32(buf, 32, TRUE),
              minX |-> getFloat64(buf, 36),
              minY |-> getFloat64(buf, 44),
              maxX |-> getFloat64(buf, 52),
              maxY |-> getFloat64(buf, 60),
              minZ |-> getFloat64(buf, 68),
              maxZ |-> getFloat64(buf, 76),
              minM |-> getFloat64(buf, 84),
              maxM |-> getFloat64(buf, 92),
              records |-> <<>>])

\* the file header: everything before the record loop
parseHeader(buf) ==
  IF ~InRange(buf, 0, 4) THEN Throw(RangeError)
  ELSE
    LET fileCode == getInt32(buf, 0, FALSE) IN
      IF fileCode # FILE_CODE
        THEN Throw([name |-> "Error", message |-> "Unknown file code", code |-> fileCode])
      ELSE IF ~InRange(buf, 24, 76) THEN Throw(RangeError)
      ELSE
        LET wordLength == getInt32(buf, 24, FALSE) IN
          Ok([fileCode |-> fileCode,
              wordLength |-> wordLength,
              byteLength |-> wordLength * 2,
              version |-> getInt32(buf, 28, TRUE),
              shapeType |-> getInt32(buf, 32, TRUE),
              minX |-> getFloat64(buf, 36),
              minY |-> getFloat64(buf, 44),
              maxX |-> getFloat64(buf, 52),
              maxY |-> getFloat64(buf, 60),
              minZ |-> getFloat64(buf, 68),
              maxZ |-> getFloat64(buf, 76),
              minM |-> getFloat64(buf, 84),
              maxM |-> getFloat64(buf, 92),
              records |-> <<>>])

\* a variant of parseRecord whose cursor advances by length, not length * 2
parseRecordMutAdvance(buf, at) ==
  IF ~InRange(buf, at, 8) THEN Throw(RangeError)
  ELSE
    LET number == getInt32(buf, at, FALSE)
        length == getInt32(buf, at + 4, FALSE)
        shape == parseShape(buf, at + 8, length)
    IN
      IF ~shape.ok
        THEN Throw([name |-> "Error", message |-> "Shape parsing error",
                    cause |-> shape.err, record |-> number])
        ELSE Ok([record |-> [number |-> number, length |-> length, shape |-> shape.v],
                 idx |-> at + 8 + length])

\* a variant of parseRecord without the try/catch of lines 174-178: what
\* parseShape throws is thrown on as it is
parseRecordMutNoWrap(buf, at) ==
  IF ~InRange(buf, at, 8) THEN Throw(RangeError)
  ELSE
    LET number == getInt32(buf, at, FALSE)
        length == getInt32(buf, at + 4, FALSE)
        shape == parseShape(buf, at + 8, length)
    IN
      IF ~shape.ok
        THEN shape
        ELSE Ok([record |-> [number |-> number, length |-> length, shape |-> shape.v],
                 idx |-> at + 8 + length * 2])

\* the number of bytes parseShape reads to decode `shape`: the type code and the
\* fields of lines 196-236
DecodedBytes(shape) ==
  CASE shape.type = SHP_NULL -> 4
    [] shape.type = SHP_POINT -> 20
    [] OTHER -> 44 + 4 * Len(shape.content.parts) + 8 * Len(shape.content.points)

\* a variant of parseRecord whose cursor advances by the bytes the shape decoder
\* read, not by the declared content length
parseRecordMutDecoded(buf, at) ==
  IF ~InRange(buf, at, 8) THEN Throw(RangeError)
  ELSE
    LET number == getInt32(buf, at, FALSE)
        length == getInt32(buf, at + 4, FALSE)
        shape == parseShape(buf, at + 8, length)
    IN
      IF ~shape.ok
        THEN Throw([name |-> "Error", message |-> "Shape parsing error",
                    cause |-> shape.err, record |-> number])
        ELSE Ok([record |-> [number |-> number, length |-> length, shape |-> shape.v],
                 idx |-> at + 8 + DecodedBytes(shape.v)])

\* one iteration of the record loop, entered with the cursor at `at`
parseRecord(buf, at) ==
  IF ~InRange(buf, at, 8) THEN Throw(RangeError)
  ELSE
    LET number == getInt32(buf, at, FALSE)
        length == getInt32(buf, at + 4, FALSE)
        shape == parseShape(buf, at + 8, length)
    IN
      IF ~shape.ok
        THEN Throw([name |-> "Error", message |-> "Shape parsing error",
                    cause |-> shape.err, record |-> number])
        ELSE Ok([record |-> [number |-> number, length |-> length, shape |-> shape.v],
                 idx |-> at + 8 + length * 2])

\* the whole of SHPParser.parse from cursor `at` with `file` built so far; the
\* loop is cut after `fuel` iterations (outcome "hang")
RECURSIVE parseLoop(_, _, _, _)
parseLoop(buf, file, at, fuel) ==
  IF ~(at < file.byteLength) THEN Ok(file)
  ELSE IF fuel = 0 THEN Throw([name |-> "hang"])
  ELSE
    LET r == parseRecord(buf, at) IN
      IF ~r.ok THEN r
      ELSE parseLoop(buf, [file EXCEPT !.records = Append(@, r.v.record)],
                     r.v.idx, fuel - 1)

SHPParser_parse(buf) ==
  LET h == parseHeader(buf) IN
    IF ~h.ok THEN h ELSE parseLoop(buf, h.v, 100, Len(buf))

-----------------------------------------------------------------------------
(* Writing a .shp buffer: the layout SHPParser reads, used to build inputs *)

ByteOf(n, k) == (n \div (256 ^ k)) % 256

EncInt32BE(n) == <<ByteOf(n, 3), ByteOf(n, 2), ByteOf(n, 1), ByteOf(n, 0)>>

EncInt32LE(n) == <<ByteOf(n, 0), ByteOf(n, 1), ByteOf(n, 2), ByteOf(n, 3)>>

EncFloat64LE(d) == <<d[8], d[7], d[6], d[5], d[4], d[3], d[2], d[1]>>

EncShape(s) ==
  CASE s.type = SHP_POINT ->
         EncInt32LE(s.type) \o EncFloat64LE(s.content.x) \o EncFloat64LE(s.content.y)
    [] s.type \in {SHP_POLYLINE, SHP_POLYGON, SHP_MULTIPOINT} ->
         EncInt32LE(s.type)
           \o EncFloat64LE(s.content.minX) \o EncFloat64LE(s.content.minY)
           \o EncFloat64LE(s.content.maxX) \o EncFloat64LE(s.content.maxY)
           \o EncInt32LE(Len(s.content.parts))
           \o EncInt32LE(Len(s.content.points) \div 2)
           \o Flatten([i \in 1..Len(s.content.parts) |-> EncInt32LE(s.content.parts[i])])
           \o Flatten([i \in 1..Len(s.content.points) |-> EncFloat64LE(s.content.points[i])])
    [] OTHER -> EncInt32LE(s.type)

\* record `number` with a content length off by `delta` words
EncRecord(number, s, delta) ==
  LET payload == EncShape(s) IN
    EncInt32BE(number) \o EncInt32BE(Len(payload) \div 2 + delta) \o payload

F0 == <<0, 0, 0, 0, 0, 0, 0, 0>>

\* src: [fileCode, lenDelta, bbox: <<minX, minY, maxX, maxY>>, recs: Seq(shape)]
EncFile(src) ==
  LET body == Flatten([i \in 1..Len(src.recs) |-> EncRecord(i, src.recs[i], src.lenDelta)])
  IN EncInt32BE(src.fileCode)
       \o [i \in 1..20 |-> 0]
       \o EncInt32BE((100 + Len(body)) \div 2)
       \o EncInt32LE(1000)
       \o EncInt32LE(IF src.recs = <<>> THEN 0 ELSE src.recs[1].type)
       \o EncFloat64LE(src.bbox[1]) \o EncFloat64LE(src.bbox[2])
       \o EncFloat64LE(src.bbox[3]) \o EncFloat64LE(src.bbox[4])
       \o EncFloat64LE(F0) \o EncFloat64LE(F0) \o EncFloat64LE(F0) \o EncFloat64LE(F0)
       \o body

-----------------------------------------------------------------------------
(* Sample float64 values: 121.5, 25.0, 1.0, 2.0, 3.0, 6.0 *)

F121_5 == <<64, 94, 96, 0, 0, 0, 0, 0>>
F25_0 == <<64, 57, 0, 0, 0, 0, 0, 0>>
F1_0 == <<63, 240, 0, 0, 0, 0, 0, 0>>
F2_0 == <<64, 0, 0, 0, 0, 0, 0, 0>>
F3_0 == <<64, 8, 0, 0, 0, 0, 0, 0>>
F6_0 == <<64, 24, 0, 0, 0, 0, 0, 0>>

Point(x, y) == [type |-> SHP_POINT, content |-> [x |-> x, y |-> y]]

NullShape == [type |-> SHP_NULL, content |-> Undefined]

Poly(t, parts, points) ==
  [type |-> t,
   content |-> [minX |-> F1_0, minY |-> F1_0, maxX |-> F121_5, maxY |-> F25_0,
                parts |-> parts, points |-> points]]

OtherShape(code) == [type |-> code, content |-> Undefined]

-----------------------------------------------------------------------------
(* proj4: the coordinate systems and the transform to EPSG:4326 *)

\* proj4("EPSG:4326"): longitude/latitude on the WGS84 datum
WGS84 == [projName |-> "longlat", datumCode |-> "WGS84", title |-> "EPSG:4326"]

\* two projected systems a .prj entry can define (transverse Mercator, UTM)
TM2 == [projName |-> "tmerc", datumCode |-> "WGS84", title |-> "TWD97 / TM2 zone 121"]

UTM51 == [projName |-> "utm", datumCode |-> "WGS84", title |-> "WGS 84 / UTM zone 51N"]

EPSG4326 == WGS84

F5_0 == <<64, 20, 0, 0, 0, 0, 0, 0>>
F7_0 == <<64, 28, 0, 0, 0, 0, 0, 0>>

\* 3.0000000000000004 and 6.000000000000001
F3_0_up == <<64, 8, 0, 0, 0, 0, 0, 1>>
F6_0_up == <<64, 24, 0, 0, 0, 0, 0, 1>>

\* x * D2R in IEEE-754 double arithmetic, tabulated for the sample values
\* (D2R = 0.017453292519943295)
MulD2R ==
  [v \in {F0, F1_0, F2_0, F3_0, F5_0, F6_0, F7_0, F25_0, F121_5} |->
     CASE v = F0 -> F0
       [] v = F1_0 -> <<63, 145, 223, 70, 162, 82, 157, 57>>
       [] v = F2_0 -> <<63, 161, 223, 70, 162, 82, 157, 57>>
       [] v = F3_0 -> <<63, 170, 206, 233, 243, 123, 235, 214>>
       [] v = F5_0 -> <<63, 182, 87, 24, 74, 231, 68, 135>>
       [] v = F6_0 -> <<63, 186, 206, 233, 243, 123, 235, 214>>
       [] v = F7_0 -> <<63, 191, 70, 187, 156, 16, 147, 36>>
       [] v = F25_0 -> <<63, 219, 236, 222, 93, 161, 21, 169>>
       [] v = F121_5 -> <<64, 0, 246, 240, 12, 20, 107, 61>>]

\* x * R2D in IEEE-754 double arithmetic, tabulated for the radian values above
\* (R2D = 57.29577951308232): 3.0 and 6.0 come back one unit in the last place up
MulR2D ==
  [r \in {MulD2R[v] : v \in DOMAIN MulD2R} |->
     CASE r = F0 -> F0
       [] r = <<63, 145, 223, 70, 162, 82, 157, 57>> -> F1_0
       [] r = <<63, 161, 223, 70, 162, 82, 157, 57>> -> F2_0
       [] r = <<63, 170, 206, 233, 243, 123, 235, 214>> -> F3_0_up
       [] r = <<63, 182, 87, 24, 74, 231, 68, 135>> -> F5_0
       [] r = <<63, 186, 206, 233, 243, 123, 235, 214>> -> F6_0_up
       [] r = <<63, 191, 70, 187, 156, 16, 147, 36>> -> F7_0
       [] r = <<63, 219, 236, 222, 93, 161, 21, 169>> -> F25_0
       [] r = <<64, 0, 246, 240, 12, 20, 107, 61>> -> F121_5]

\* transform(source, dest, point) with dest = EPSG:4326.  A longlat source on the
\* same datum goes degrees -> radians -> degrees; a projected source goes through
\* its inverse projection, kept symbolic: <<axis, source, x, y>>.
transform(source, point) ==
  IF source.projName = "longlat"
    THEN <<MulR2D[MulD2R[point[1]]], MulR2D[MulD2R[point[2]]]>>
    ELSE <<<<"lon", source.title, point[1], point[2]>>,
           <<"lat", source.title, point[1], point[2]>>>>

\* TransCoord(x, y), reading the module-level EPSGUser passed as `user`
TransCoord(user, x, y) ==
  LET p == transform(user, <<x, y>>) IN [x |-> p[1], y |-> p[2]]

TypeError == [name |-> "TypeError", message |-> "coordinates must be finite numbers"]

-----------------------------------------------------------------------------
(* toGeojson *)

\* a variant of geoBbox that takes the corners (maxX, minY) and (minX, maxY)
geoBboxMutCorners(user, shp) ==
  <<TransCoord(user, shp.minX, shp.minY).x,
    TransCoord(user, shp.minX, shp.minY).y,
    TransCoord(user, shp.maxX, shp.minY).x,
    TransCoord(user, shp.minX, shp.maxY).y>>

\* lines 149-158
geoBbox(user, shp) ==
  <<TransCoord(user, shp.minX, shp.minY).x,
    TransCoord(user, shp.minX, shp.minY).y,
    TransCoord(user, shp.maxX, shp.maxY).x,
    TransCoord(user, shp.maxX, shp.maxY).y>>

\* a variant of Positions that leaves out the last position
PositionsMutDropLast(user, points, start, end) ==
  LET count == IF end > start + 2 THEN (end - start + 1) \div 2 - 1 ELSE 0
  IN Ok([k \in 1..count |->
           LET c == TransCoord(user, points[start + 2 * (k - 1) + 1],
                                     points[start + 2 * (k - 1) + 2])
           IN <<c.x, c.y>>])

\* for (j = start; j < end; j += 2) push TransCoord(points[j], points[j + 1]);
\* an index outside the array reads undefined, which proj4 rejects
Positions(user, points, start, end) ==
  LET count == IF end > start THEN (end - start + 1) \div 2 ELSE 0
      inside(k) == start + 2 * k >= 0 /\ start + 2 * k + 1 < Len(points)
  IN IF \E k \in 0..(count - 1) : ~inside(k)
       THEN Throw(TypeError)
       ELSE Ok([k \in 1..count |->
                  LET c == TransCoord(user, points[start + 2 * (k - 1) + 1],
                                            points[start + 2 * (k - 1) + 2])
                  IN <<c.x, c.y>>])

\* (parts[p + 1] || points.length / 2) * 2, p counted from 0
ringEnd(parts, points, p) ==
  IF p + 2 <= Len(parts) /\ parts[p + 2] # 0
    THEN parts[p + 2] * 2
    ELSE (Len(points) \div 2) * 2

\* lines 198-223: the rings of a Polygon
polygonRings(user, content) ==
  LET parts == content.parts
      points == content.points
      ring(p) == Positions(user, points, parts[p + 1] * 2, ringEnd(parts, points, p))
  IN IF \E p \in 0..(Len(parts) - 1) : ~ring(p).ok
       THEN Throw(TypeError)
       ELSE Ok([q \in 1..Len(parts) |-> ring(q - 1).v])

\* a variant of recordAt that reads the record after record i
recordAtMutShift(records, i) ==
  IF i + 2 <= Len(records) THEN records[i + 2] ELSE Undefined

\* dbf.records[i], i counted from 0
recordAt(records, i) ==
  IF i + 1 <= Len(records) THEN records[i + 1] ELSE Undefined

\* a variant of geoFeature whose default branch builds a Feature without a
\* geometry instead of throwing
geoFeatureMutNullGeometry(user, shp, dbf, i) ==
  LET shape == shp.records[i + 1].shape
      type == shape.type
      content == shape.content
      feature(g) == [type |-> "Feature", geometry |-> g,
                     properties |-> recordAt(dbf.records, i)]
  IN CASE type = 1 ->
            LET c == TransCoord(user, content.x, content.y) IN
              Ok(feature([type |-> "Point", coordinates |-> <<c.x, c.y>>]))
       [] type \in {3, 8} ->
            LET cs == Positions(user, content.points, 0, Len(content.points)) IN
              IF ~cs.ok THEN cs
              ELSE Ok(feature([type |-> IF type = 3 THEN "LineString" ELSE "MultiPoint",
                               coordinates |-> cs.v]))
       [] type = 5 ->
            LET rs == polygonRings(user, content) IN
              IF ~rs.ok THEN rs
              ELSE Ok(feature([type |-> "Polygon", coordinates |-> rs.v]))
       [] OTHER ->
            Ok(feature(Undefined))

\* lines 160-229: the body of the forEach callback for record i (from 0)
geoFeature(user, shp, dbf, i) ==
  LET shape == shp.records[i + 1].shape
      type == shape.type
      content == shape.content
      feature(g) == [type |-> "Feature", geometry |-> g,
                     properties |-> recordAt(dbf.records, i)]
  IN CASE type = 1 ->
            LET c == TransCoord(user, content.x, content.y) IN
              Ok(feature([type |-> "Point", coordinates |-> <<c.x, c.y>>]))
       [] type \in {3, 8} ->
            LET cs == Positions(user, content.points, 0, Len(content.points)) IN
              IF ~cs.ok THEN cs
              ELSE Ok(feature([type |-> IF type = 3 THEN "LineString" ELSE "MultiPoint",
                               coordinates |-> cs.v]))
       [] type = 5 ->
            LET rs == polygonRings(user, content) IN
              IF ~rs.ok THEN rs
              ELSE Ok(feature([type |-> "Polygon", coordinates |-> rs.v]))
       [] OTHER ->
            Throw([name |-> "Error", message |-> "Unsupported shape type", code |-> type])

\* how many times the callback for record i calls TransCoord when it completes
featureCalls(shp, i) ==
  LET shape == shp.records[i + 1].shape IN
    CASE shape.type = 1 -> 1
      [] shape.type \in {3, 8} -> (Len(shape.content.points) + 1) \div 2
      [] shape.type = 5 ->
           LET parts == shape.content.parts
               n(p) == LET s == parts[p + 1] * 2
                           e == ringEnd(parts, shape.content.points, p)
                       IN IF e > s THEN (e - s + 1) \div 2 ELSE 0
               RECURSIVE sum(_)
               sum(p) == IF p = Len(parts) THEN 0 ELSE n(p) + sum(p + 1)
           IN sum(0)
      [] OTHER -> 0

\* toGeojson as a whole: the first record whose callback throws ends the call
toGeojson(user, shp, dbf) ==
  LET n == Len(shp.records)
      f(i) == geoFeature(user, shp, dbf, i)
  IN IF \E i \in 0..(n - 1) : ~f(i).ok
       THEN f(CHOOSE i \in 0..(n - 1) : ~f(i).ok /\ \A j \in 0..(i - 1) : f(j).ok)
       ELSE Ok([type |-> "FeatureCollection",
                bbox |-> geoBbox(user, shp),
                features |-> [i \in 1..n |-> f(i - 1).v]])

-----------------------------------------------------------------------------
(* Text: a string is the sequence of its UTF-16 code units *)

REPLACEMENT == 65533

\* the bounds of the second byte of a three- and four-byte UTF-8 sequence
Utf8Second(lead) ==
  CASE lead = 224 -> 160..191
    [] lead = 237 -> 128..159
    [] lead = 240 -> 144..191
    [] lead = 244 -> 128..143
    [] OTHER -> 128..191

\* the elements of parts[lo..hi], in order, as one sequence
RECURSIVE ConcatRange(_, _, _)
ConcatRange(parts, lo, hi) ==
  IF lo > hi THEN <<>>
  ELSE IF lo = hi THEN parts[lo]
  ELSE LET mid == (lo + hi) \div 2 IN
         ConcatRange(parts, lo, mid) \o ConcatRange(parts, mid + 1, hi)

Concat(parts) == ConcatRange(parts, 1, Len(parts))

\* how many bytes the UTF-8 sequence led by byte i announces
Utf8Need(b, i) ==
  CASE b[i] \in 194..223 -> 2
    [] b[i] \in 224..239 -> 3
    [] b[i] \in 240..244 -> 4
    [] OTHER -> 1

\* how many bytes from lead byte i on form a prefix of a well-formed sequence
Utf8Have(b, i) ==
  LET n == Len(b)
      need == Utf8Need(b, i)
      second == need >= 2 /\ i + 1 <= n /\ b[i + 1] \in Utf8Second(b[i])
      third == second /\ need >= 3 /\ i + 2 <= n /\ b[i + 2] \in 128..191
      fourth == third /\ need >= 4 /\ i + 3 <= n /\ b[i + 3] \in 128..191
  IN IF fourth THEN 4 ELSE IF third THEN 3 ELSE IF second THEN 2 ELSE 1

\* whether byte i was consumed by the sequence of an earlier lead byte
Utf8Consumed(b, i) ==
  \E j \in 1..3 : i - j >= 1 /\ Utf8Need(b, i - j) >= 2 /\ Utf8Have(b, i - j) > j

\* the code units byte i contributes: itself for ASCII, the decoded character
\* for the lead byte of a complete sequence, U+FFFD for a malformed prefix or a
\* stray byte, nothing for a byte consumed by an earlier lead byte
Utf8At(b, i) ==
  LET c == b[i]
      need == Utf8Need(b, i)
  IN CASE c < 128 -> <<c>>
       [] c \in 128..191 -> IF Utf8Consumed(b, i) THEN <<>> ELSE <<REPLACEMENT>>
       [] need >= 2 /\ Utf8Have(b, i) < need -> <<REPLACEMENT>>
       [] need = 2 -> <<(c - 192) * 64 + (b[i + 1] - 128)>>
       [] need = 3 -> <<(c - 224) * 4096 + (b[i + 1] - 128) * 64 + (b[i + 2] - 128)>>
       [] need = 4 ->
            LET cp == (c - 240) * 262144 + (b[i + 1] - 128) * 4096
                        + (b[i + 2] - 128) * 64 + (b[i + 3] - 128) - 65536
            IN <<55296 + (cp \div 1024), 56320 + (cp % 1024)>>
       [] OTHER -> <<REPLACEMENT>>

\* new TextDecoder("utf-8").decode(bytes) after the byte order mark: malformed
\* input becomes U+FFFD, one per maximal ill-formed prefix
Utf8Units(b) == Concat([i \in 1..Len(b) |-> Utf8At(b, i)])

\* the windows-1252 index for the bytes 0x80..0x9F; every other byte decodes to
\* the code point of its own value
Win1252High ==
  <<8364, 129, 8218, 402, 8222, 8230, 8224, 8225, 710, 8240, 352, 8249, 338, 141, 381, 143,
    144, 8216, 8217, 8220, 8221, 8226, 8211, 8212, 732, 8482, 353, 8250, 339, 157, 382, 376>>

Win1252Unit(b) == IF b \in 128..159 THEN Win1252High[b - 127] ELSE b

\* labels the platform resolves to the single-byte windows-1252 decoder
Win1252Labels == {"windows-1252", "latin1", "iso-8859-1", "ascii"}

\* decoder.decode(textBuffer) for the encoding labels the model covers
TextDecode(bytes, encoding) ==
  CASE encoding = "utf-8" ->
         IF Len(bytes) >= 3 /\ SubSeq(bytes, 1, 3) = <<239, 187, 191>>
           THEN Utf8Units(SubSeq(bytes, 4, Len(bytes)))
           ELSE Utf8Units(bytes)
    [] encoding \in Win1252Labels ->
         [i \in 1..Len(bytes) |-> Win1252Unit(bytes[i])]

\* text.slice(n)
SliceFrom(text, n) == SubSeq(text, n + 1, Len(text))

\* text.slice(0, n)
SliceTo(text, n) == SubSeq(text, 1, IF n < Len(text) THEN n ELSE Len(text))

\* text.replace(/\0/g, "")
StripNul(text) ==
  LET keep == { k \in 1..Len(text) : text[k] # 0 } IN
    [m \in 1..Cardinality(keep) |->
       text[CHOOSE k \in keep : Cardinality({ j \in keep : j < k }) = m - 1]]

\* the code units String.prototype.trim removes
WhiteSpace ==
  {9, 10, 11, 12, 13, 32, 160, 5760, 8232, 8233, 8239, 8287, 12288, 65279}
    \cup (8192..8202)

Trim(text) ==
  LET keep == { k \in 1..Len(text) : text[k] \notin WhiteSpace } IN
    IF keep = {} THEN <<>>
    ELSE SubSeq(text, CHOOSE k \in keep : \A m \in keep : k <= m,
                      CHOOSE k \in keep : \A m \in keep : k >= m)

CR == 13

\* the positions of the carriage returns of a text
CRs(text) == { k \in 1..Len(text) : text[k] = CR }

LastCR(text) == CHOOSE k \in CRs(text) : \A m \in CRs(text) : k >= m

FirstCR(text) == CHOOSE k \in CRs(text) : \A m \in CRs(text) : k <= m

\* response.split("\r").at(-1)
LastSegment(text) ==
  IF CRs(text) = {} THEN text ELSE SliceFrom(text, LastCR(text))

\* lines 355-364: the text of the field descriptors and the offset in force
responseHeaderOf(response, offset0) ==
  IF Cardinality(CRs(response)) + 1 > 2
    THEN [text |-> SliceFrom(SliceTo(response, LastCR(response) - 1), 32),
          offset |-> offset0]
    ELSE [text |-> SliceFrom(IF CRs(response) = {} THEN response
                             ELSE SliceTo(response, FirstCR(response) - 1), 32),
          offset |-> 2]

\* the count added for responseHeader[z]: the offset for a character that
\* encodeURIComponent writes as two or more %XX groups, 1 for any other, for a
\* lone surrogate (URIError) and for a position past the end (undefined)
WidthAt(text, z, offset) ==
  IF z + 1 > Len(text) THEN 1
  ELSE IF text[z + 1] \in 128..55295 \/ text[z + 1] \in 57344..65535 THEN offset
  ELSE 1

\* while (count < limit) { count += width of text[z]; z++ }: the final z
RECURSIVE Walk(_, _, _, _, _)
Walk(text, limit, offset, z, count) ==
  IF ~(count < limit) THEN z
  ELSE Walk(text, limit, offset, z + 1, count + WidthAt(text, z, offset))

\* lines 367-386: one name per 32 characters of the descriptor text
RECURSIVE fieldNames(_)
fieldNames(responseHeader) ==
  IF ~(Len(responseHeader) > 0) THEN <<>>
  ELSE <<StripNul(SliceTo(responseHeader, 10))>> \o fieldNames(SliceFrom(responseHeader, 32))

-----------------------------------------------------------------------------
(* DBFParser.parse *)

getInt16LE(buf, at) ==
  LET u == buf[at + 1] + 256 * buf[at + 2] IN IF u >= 32768 THEN u - 65536 ELSE u

getInt8(buf, at) == IF buf[at + 1] >= 128 THEN buf[at + 1] - 256 ELSE buf[at + 1]

\* lines 316-352: the fixed header; the last byte it reads is byte 29
dbfHeader(buf) ==
  IF ~InRange(buf, 0, 30) THEN Throw(RangeError)
  ELSE Ok([version |-> getInt8(buf, 0),
           year |-> getUint8(buf, 1) + 1900,
           month |-> getUint8(buf, 2),
           day |-> getUint8(buf, 3),
           numberOfRecords |-> getInt32(buf, 4, TRUE),
           bytesInHeader |-> getInt16LE(buf, 8),
           bytesInRecord |-> getInt16LE(buf, 10),
           incompleteTransation |-> getUint8(buf, 14),
           encryptionFlag |-> getUint8(buf, 15),
           mdxFlag |-> getUint8(buf, 28),
           languageDriverId |-> getUint8(buf, 29)])

StrUndefined == <<117, 110, 100, 101, 102, 105, 110, 101, 100>>

\* a variant of dbfFields that throws when charString holds no name for a
\* descriptor, where line 400 stores undefined
RECURSIVE dbfFieldsMutNameRequired(_, _, _, _)
dbfFieldsMutNameRequired(buf, charString, at, k) ==
  IF ~InRange(buf, at, 33) THEN Throw(RangeError)
  ELSE IF k > Len(charString)
    THEN Throw([name |-> "TypeError", message |-> "field name is undefined"])
  ELSE
    LET field == [name |-> charString[k],
                  type |-> getUint8(buf, at + 11),
                  fieldLength |-> getUint8(buf, at + 16),
                  workAreaId |-> getUint8(buf, at + 20),
                  setFieldFlag |-> getUint8(buf, at + 23),
                  indexFieldFlag |-> getUint8(buf, at + 31)]
    IN
      IF getUint8(buf, at + 32) = 13
        THEN Ok([fields |-> <<field>>, idx |-> at + 32])
        ELSE
          LET more == dbfFieldsMutNameRequired(buf, charString, at + 32, k + 1) IN
            IF ~more.ok THEN more
            ELSE Ok([fields |-> <<field>> \o more.v.fields, idx |-> more.v.idx])

\* lines 391-424: the descriptors from cursor `at`, the k-th taking name k of
\* charString; the loop tests for the terminator only after a descriptor
RECURSIVE dbfFields(_, _, _, _)
dbfFields(buf, charString, at, k) ==
  IF ~InRange(buf, at, 33) THEN Throw(RangeError)
  ELSE
    LET field == [name |-> IF k <= Len(charString) THEN charString[k] ELSE StrUndefined,
                  type |-> getUint8(buf, at + 11),
                  fieldLength |-> getUint8(buf, at + 16),
                  workAreaId |-> getUint8(buf, at + 20),
                  setFieldFlag |-> getUint8(buf, at + 23),
                  indexFieldFlag |-> getUint8(buf, at + 31)]
    IN
      IF getUint8(buf, at + 32) = 13
        THEN Ok([fields |-> <<field>>, idx |-> at + 32])
        ELSE
          LET more == dbfFields(buf, charString, at + 32, k + 1) IN
            IF ~more.ok THEN more
            ELSE Ok([fields |-> <<field>> \o more.v.fields, idx |-> more.v.idx])

IsDigit(c) == c \in 48..57

\* a variant of IsScientific without the i flag
IsScientificMutCaseSensitive(v) ==
  /\ Len(v) = 18
  /\ IsDigit(v[1])
  /\ v[2] = 46
  /\ \A k \in 3..13 : IsDigit(v[k])
  /\ v[14] = 101
  /\ v[15] = 43
  /\ \A k \in 16..18 : IsDigit(v[k])

\* /^\d\.\d{11}e\+\d{3}$/i
IsScientific(v) ==
  /\ Len(v) = 18
  /\ IsDigit(v[1])
  /\ v[2] = 46
  /\ \A k \in 3..13 : IsDigit(v[k])
  /\ v[14] \in {69, 101}
  /\ v[15] = 43
  /\ \A k \in 16..18 : IsDigit(v[k])

StringValue(text) == <<"string", text>>

\* parseFloat of a text in the scientific form: its digits and its exponent
NumberValue(v) ==
  <<"number",
    <<v[1] - 48>> \o [k \in 1..11 |-> v[k + 2] - 48],
    (v[16] - 48) * 100 + (v[17] - 48) * 10 + (v[18] - 48)>>

\* a variant of fieldValue without trim()
fieldValueMutNoTrim(slice) ==
  LET rawValue == StripNul(slice) IN
    IF IsScientific(rawValue) THEN NumberValue(rawValue) ELSE StringValue(rawValue)

\* lines 453-461
fieldValue(slice) ==
  LET rawValue == Trim(StripNul(slice)) IN
    IF IsScientific(rawValue) THEN NumberValue(rawValue) ELSE StringValue(rawValue)

\* a variant of dbfRecordFields whose walk measures responseText, the text the
\* slices are cut from, where line 442 measures responseHeader
RECURSIVE dbfRecordFieldsMeasuringText(_, _, _, _, _)
dbfRecordFieldsMeasuringText(fields, k, responseHeader, offset, responseText) ==
  IF k > Len(fields) THEN [pairs |-> <<>>, text |-> responseText]
  ELSE
    LET z == Walk(responseText, fields[k].fieldLength, offset, 0, 0)
        tail == dbfRecordFieldsMeasuringText(fields, k + 1, responseHeader, offset,
                                             SliceFrom(responseText, z))
    IN [pairs |-> << <<fields[k].name, fieldValue(SliceTo(responseText, z))>> >> \o tail.pairs,
        text |-> tail.text]

\* lines 437-462: the fields of one record; the walk measures responseHeader,
\* the slices are cut from responseText
RECURSIVE dbfRecordFields(_, _, _, _, _)
dbfRecordFields(fields, k, responseHeader, offset, responseText) ==
  IF k > Len(fields) THEN [pairs |-> <<>>, text |-> responseText]
  ELSE
    LET z == Walk(responseHeader, fields[k].fieldLength, offset, 0, 0)
        tail == dbfRecordFields(fields, k + 1, responseHeader, offset,
                                SliceFrom(responseText, z))
    IN [pairs |-> << <<fields[k].name, fieldValue(SliceTo(responseText, z))>> >> \o tail.pairs,
        text |-> tail.text]

\* the object a record's assignments build: the last value given to each name
RecordObject(pairs) ==
  [name \in { pairs[k][1] : k \in 1..Len(pairs) } |->
     pairs[CHOOSE k \in 1..Len(pairs) :
             /\ pairs[k][1] = name
             /\ \A m \in (k + 1)..Len(pairs) : pairs[m][1] # name][2]]

\* lines 433-465
RECURSIVE dbfRecords(_, _, _, _, _)
dbfRecords(n, fields, responseHeader, offset, responseText) ==
  IF n <= 0 THEN <<>>
  ELSE
    LET r == dbfRecordFields(fields, 1, responseHeader, offset, SliceFrom(responseText, 1))
    IN <<RecordObject(r.pairs)>> \o dbfRecords(n - 1, fields, responseHeader, offset, r.text)

\* /big5/i.test(encoding) ? 2 : 3
offsetOf(encoding) == IF encoding \in {"big5", "Big5", "BIG5"} THEN 2 ELSE 3

DBFParser_parse(buf, response, encoding) ==
  LET h == dbfHeader(buf) IN
    IF ~h.ok THEN h
    ELSE
      LET rh == responseHeaderOf(response, offsetOf(encoding))
          charString == fieldNames(rh.text)
          fs == dbfFields(buf, charString, 32, 1)
      IN
        IF ~fs.ok THEN fs
        ELSE
          \* the name loop leaves responseHeader empty
          Ok([version |-> h.v.version,
              year |-> h.v.year,
              month |-> h.v.month,
              day |-> h.v.day,
              numberOfRecords |-> h.v.numberOfRecords,
              bytesInHeader |-> h.v.bytesInHeader,
              bytesInRecord |-> h.v.bytesInRecord,
              incompleteTransation |-> h.v.incompleteTransation,
              encryptionFlag |-> h.v.encryptionFlag,
              mdxFlag |-> h.v.mdxFlag,
              languageDriverId |-> h.v.languageDriverId,
              fields |-> fs.v.fields,
              fieldpos |-> fs.v.idx + 1,
              records |-> dbfRecords(h.v.numberOfRecords, fs.v.fields, <<>>, rh.offset,
                                     LastSegment(response))])

-----------------------------------------------------------------------------
(* Writing a .dbf buffer: the layout DBFParser reads, used to build inputs *)

PadTo(bytes, n, fill) == [k \in 1..n |-> IF k <= Len(bytes) THEN bytes[k] ELSE fill]

EncInt16LE(n) == <<ByteOf(n, 0), ByteOf(n, 1)>>

\* f: [name: bytes, type: byte, fieldLength: byte]
EncDescriptor(f) ==
  PadTo(f.name, 11, 0) \o <<f.type>> \o <<0, 0, 0, 0>> \o <<f.fieldLength>>
    \o [k \in 1..15 |-> 0]

RECURSIVE SumLengths(_)
SumLengths(fields) ==
  IF fields = <<>> THEN 0 ELSE Head(fields).fieldLength + SumLengths(Tail(fields))

\* one record: the deletion flag, then each value padded with spaces to its width
EncDbfRecord(fields, values) ==
  <<32>> \o Flatten([k \in 1..Len(fields) |-> PadTo(values[k], fields[k].fieldLength, 32)])

\* table: [day, fields, rows: Seq(Seq(bytes)), cut: bytes missing at the end]
EncDbf(table) ==
  LET whole ==
        <<3, 125, 11, table.day>>
          \o EncInt32LE(Len(table.rows))
          \o EncInt16LE(32 + 32 * Len(table.fields) + 1)
          \o EncInt16LE(1 + SumLengths(table.fields))
          \o [k \in 1..20 |-> 0]
          \o Flatten([k \in 1..Len(table.fields) |-> EncDescriptor(table.fields[k])])
          \o <<13>>
          \o Flatten([k \in 1..Len(table.rows) |-> EncDbfRecord(table.fields, table.rows[k])])
          \o <<26>>
  IN SubSeq(whole, 1, Len(whole) - table.cut)

\* the bytes a writer using `encoding` stores for a text of characters below
\* U+D800 that the encoding has
Win1252Byte(u) ==
  IF \E b \in 128..159 : Win1252High[b - 127] = u
    THEN CHOOSE b \in 128..159 : Win1252High[b - 127] = u
    ELSE u

Utf8Bytes(u) ==
  IF u < 128 THEN <<u>>
  ELSE IF u < 2048 THEN <<192 + (u \div 64), 128 + (u % 64)>>
  ELSE <<224 + (u \div 4096), 128 + ((u \div 64) % 64), 128 + (u % 64)>>

EncodeText(text, encoding) ==
  IF encoding = "utf-8"
    THEN Concat([k \in 1..Len(text) |-> Utf8Bytes(text[k])])
    ELSE [k \in 1..Len(text) |-> Win1252Byte(text[k])]

\* table: [encoding, day, declared: the record count written in the header,
\* flag: the deletion flag of every record, fields, rows: Seq(Seq(text)), cut];
\* names and values are texts, written in the table's encoding
EncDbfTable(table) ==
  LET bytes(text) == EncodeText(text, table.encoding)
      descriptor(f) == EncDescriptor([name |-> bytes(f.name), type |-> f.type,
                                      fieldLength |-> f.fieldLength])
      record(values) ==
        <<table.flag>>
          \o Flatten([k \in 1..Len(table.fields) |->
                        PadTo(bytes(values[k]), table.fields[k].fieldLength, 32)])
      whole ==
        <<3, 125, 11, table.day>>
          \o EncInt32LE(table.declared)
          \o EncInt16LE(32 + 32 * Len(table.fields) + 1)
          \o EncInt16LE(1 + SumLengths(table.fields))
          \o [k \in 1..20 |-> 0]
          \o Flatten([k \in 1..Len(table.fields) |-> descriptor(table.fields[k])])
          \o <<13>>
          \o Flatten([k \in 1..Len(table.rows) |-> record(table.rows[k])])
          \o <<26>>
  IN SubSeq(whole, 1, Len(whole) - table.cut)

-----------------------------------------------------------------------------
(* SHPParser.parse as a state machine: SpecShp *)

ShpSampleShapes ==
  { NullShape,
    Point(F121_5, F25_0),
    Poly(SHP_POLYLINE, <<0>>, <<F1_0, F2_0, F3_0, F6_0>>),
    Poly(SHP_POLYGON, <<0, 1>>, <<F1_0, F2_0, F3_0, F6_0, F121_5, F25_0>>),
    Poly(SHP_MULTIPOINT, <<>>, <<F3_0, F6_0>>),
    OtherShape(2),
    OtherShape(0 - 1) }
    \cup { OtherShape(n) : n \in DOMAIN NotSupportedShapeType }

ShpSources ==
  { [fileCode |-> fc, lenDelta |-> d, bbox |-> <<F1_0, F2_0, F121_5, F25_0>>, recs |-> rs] :
      fc \in {FILE_CODE, FILE_CODE + 1}, d \in {-1, 0, 1},
      rs \in SeqsUpTo(ShpSampleShapes, MaxShpRecs) }
  \cup
  \* record headers declaring a content length of zero words and of fewer:
  \* a null shape (2 words) declared as 0, -4 and -5 words
  { [fileCode |-> FILE_CODE, lenDelta |-> d, bbox |-> <<F1_0, F2_0, F121_5, F25_0>>, recs |-> rs] :
      d \in {-2, -6, -7}, rs \in {<<NullShape>>, <<NullShape, Point(F121_5, F25_0)>>} }

\* the buffers handed to the parse: the whole file, the file cut off after its
\* first four bytes, and the file without its last four bytes
ShpBuffers(src) ==
  {EncFile(src), SubSeq(EncFile(src), 1, 4), SubSeq(EncFile(src), 1, Len(EncFile(src)) - 4)}

NoFile == [none |-> TRUE]

NoError == [none |-> TRUE]

ShpIdle ==
  /\ shpSrc = NoFile
  /\ arrayBuffer = <<>>
  /\ shpPc = "idle"
  /\ idx = 0
  /\ shpFile = NoFile
  /\ shpErr = NoError

GeoIdle ==
  /\ geoSrc = NoFile
  /\ geoShp = NoFile
  /\ geoDbf = NoFile
  /\ geoPc = "idle"
  /\ geoI = 0
  /\ geojson = NoFile
  /\ geoErr = NoError
  /\ transCalls = 0

DbfIdle ==
  /\ dbfSrc = NoFile
  /\ dbfBytes = <<>>
  /\ dbfResponse = <<>>
  /\ dbfPc = "idle"
  /\ dbfFile = NoFile
  /\ dbfOffset = 0
  /\ dbfNames = <<>>
  /\ dbfText = <<>>
  /\ dbfErr = NoError

Calls == {1, 2}

LoadIdle ==
  /\ defs = Undefined
  /\ objectURLs = {}
  /\ pool = {}
  /\ callsLeft = 0
  /\ overlap = FALSE
  /\ callPc = [c \in Calls |-> "idle"]
  /\ config = [c \in Calls |-> NoFile]
  /\ shpBuffer = [c \in Calls |-> <<>>]
  /\ loadedShp = [c \in Calls |-> NoFile]
  /\ dbfBuffer = [c \in Calls |-> <<>>]
  /\ loadedDbf = [c \in Calls |-> NoFile]
  /\ settled = [c \in Calls |-> NoFile]

ShpInit ==
  /\ GeoIdle
  /\ DbfIdle
  /\ LoadIdle
  /\ EPSGUser = WGS84
  /\ shpSrc \in ShpSources
  /\ arrayBuffer \in ShpBuffers(shpSrc)
  /\ shpPc = "start"
  /\ idx = 0
  /\ shpFile = NoFile
  /\ shpErr = NoError

\* lines 114-163: the header, up to the first test of the loop condition
ShpParseHeader ==
  /\ shpPc = "start"
  /\ LET h == parseHeader(arrayBuffer) IN
       IF h.ok
         THEN /\ shpFile' = h.v
              /\ idx' = 100
              /\ shpPc' = "loop"
              /\ UNCHANGED shpErr
         ELSE /\ shpErr' = h.err
              /\ shpPc' = "thrown"
              /\ UNCHANGED <<shpFile, idx>>
  /\ UNCHANGED <<shpSrc, arrayBuffer, EPSGUser, geoVars, loadVars, dbfVars>>

\* lines 166-187: one iteration of the record loop
ShpParseRecord ==
  /\ shpPc = "loop"
  /\ idx < shpFile.byteLength
  /\ Len(shpFile.records) <= Len(arrayBuffer)
  /\ LET r == parseRecord(arrayBuffer, idx) IN
       IF r.ok
         THEN /\ shpFile' = [shpFile EXCEPT !.records = Append(@, r.v.record)]
              /\ idx' = r.v.idx
              /\ UNCHANGED <<shpPc, shpErr>>
         ELSE /\ shpErr' = r.err
              /\ shpPc' = "thrown"
              /\ UNCHANGED <<shpFile, idx>>
  /\ UNCHANGED <<shpSrc, arrayBuffer, EPSGUser, geoVars, loadVars, dbfVars>>

\* line 189: the loop condition fails and the file is returned
ShpReturn ==
  /\ shpPc = "loop"
  /\ ~(idx < shpFile.byteLength)
  /\ shpPc' = "returned"
  /\ UNCHANGED <<shpSrc, arrayBuffer, idx, shpFile, shpErr, EPSGUser, geoVars, loadVars, dbfVars>>

ShpNext == ShpParseHeader \/ ShpParseRecord \/ ShpReturn

SpecShp == ShpInit /\ [][ShpNext]_vars

-----------------------------------------------------------------------------
(* toGeojson as a state machine: SpecGeo *)

\* distinct sample coordinates, so that order and pairing show
CoordList == <<F1_0, F2_0, F3_0, F6_0, F121_5, F25_0, F5_0, F7_0>>

PointsN(n) == [i \in 1..(2 * n) |-> CoordList[i]]

\* every Polygon of up to MaxPoints points whose parts are start indices in 0..n
\* (in any order, repeats included), two with a start index outside 0..n, the
\* other kinds with and without parts
GeoShapes ==
  { NullShape, Point(F121_5, F25_0), Point(F3_0, F6_0) }
    \cup UNION { { Poly(SHP_POLYGON, parts, PointsN(n)) : parts \in SeqsUpTo(0..n, MaxParts) } :
                  n \in 0..MaxPoints }
    \cup { Poly(SHP_POLYGON, <<0 - 1>>, PointsN(1)), Poly(SHP_POLYGON, <<0, 2>>, PointsN(1)) }
    \cup { Poly(t, parts, PointsN(n)) :
             t \in {SHP_POLYLINE, SHP_MULTIPOINT}, parts \in {<<>>, <<1, 0>>},
             n \in 0..MaxPoints }

GeoFillers == { Point(F1_0, F2_0), Point(F5_0, F7_0) }

\* record lists: fillers, with at most one record drawn from GeoShapes
GeoRecLists ==
  UNION { { [i \in 1..k |-> IF i = at THEN g ELSE fill[i]] :
              at \in 0..k, g \in GeoShapes, fill \in [1..k -> GeoFillers] } :
          k \in 0..MaxGeoRecs }

AttrNames == <<"Taipei", "Tainan", "Hualien", "Yilan", "Keelung", "Chiayi">>

AttrRecords(n) == [i \in 1..n |-> [name |-> AttrNames[i]]]

GeoBoxes == { <<F1_0, F2_0, F121_5, F25_0>>, <<F3_0, F6_0, F3_0, F6_0>> }

GeoSources ==
  { [bbox |-> b, recs |-> rs, nDbf |-> nd] :
      b \in GeoBoxes, rs \in GeoRecLists, nd \in 0..(MaxGeoRecs + 1) }

GeoInit ==
  /\ LoadIdle
  /\ DbfIdle
  /\ EPSGUser \in {WGS84, TM2}
  /\ geoSrc \in { g \in GeoSources : g.nDbf \in (Len(g.recs) - 1)..(Len(g.recs) + 1) }
  /\ shpSrc = [fileCode |-> FILE_CODE, lenDelta |-> 0,
               bbox |-> geoSrc.bbox, recs |-> geoSrc.recs]
  /\ arrayBuffer = EncFile(shpSrc)
  /\ shpPc = "idle"
  /\ idx = 0
  /\ shpFile = NoFile
  /\ shpErr = NoError
  /\ geoShp = SHPParser_parse(arrayBuffer).v
  /\ geoDbf = [records |-> AttrRecords(geoSrc.nDbf)]
  /\ geoPc = "start"
  /\ geoI = 0
  /\ geojson = NoFile
  /\ geoErr = NoError
  /\ transCalls = 0

\* lines 149-158: the collection is created with its bbox
GeoStart ==
  /\ geoPc = "start"
  /\ geojson' = [type |-> "FeatureCollection",
                 bbox |-> geoBbox(EPSGUser, geoShp),
                 features |-> <<>>]
  /\ transCalls' = transCalls + 4
  /\ geoPc' = "forEach"
  /\ UNCHANGED <<dbfVars, loadVars, shpVars, EPSGUser, geoSrc, geoShp, geoDbf, geoI, geoErr>>

\* lines 160-230: the callback for record geoI
GeoFeature ==
  /\ geoPc = "forEach"
  /\ geoI < Len(geoShp.records)
  /\ LET f == geoFeature(EPSGUser, geoShp, geoDbf, geoI) IN
       IF f.ok
         THEN /\ geojson' = [geojson EXCEPT !.features = Append(@, f.v)]
              /\ transCalls' = transCalls + featureCalls(geoShp, geoI)
              /\ geoI' = geoI + 1
              /\ UNCHANGED <<geoPc, geoErr>>
         ELSE /\ geoErr' = f.err
              /\ geoPc' = "thrown"
              /\ UNCHANGED <<geojson, transCalls, geoI>>
  /\ UNCHANGED <<dbfVars, loadVars, shpVars, EPSGUser, geoSrc, geoShp, geoDbf>>

\* line 232
GeoReturn ==
  /\ geoPc = "forEach"
  /\ geoI = Len(geoShp.records)
  /\ geoPc' = "returned"
  /\ UNCHANGED <<dbfVars, loadVars, shpVars, EPSGUser, geoSrc, geoShp, geoDbf, geoI, geojson, geoErr, transCalls>>

GeoNext == GeoStart \/ GeoFeature \/ GeoReturn

SpecGeo == GeoInit /\ [][GeoNext]_vars

-----------------------------------------------------------------------------
(* Claims about SHPParser.parse *)

\* the buffer encodes records of supported types, every declared content length
\* is the payload size and the header's word length is half the buffer size
ShpWellFormed ==
  /\ arrayBuffer = EncFile(shpSrc)
  /\ shpSrc.fileCode = FILE_CODE
  /\ shpSrc.lenDelta = 0
  /\ \A i \in 1..Len(shpSrc.recs) : shpSrc.recs[i].type \in SupportedTypes

\* C1: on a well-formed buffer of N records of supported types the parse never
\* throws, the records decoded so far are the first records of the file in file
\* order with the type codes they were encoded with, and at the return there
\* are exactly N of them.
C1_ParseYieldsAllRecordsInOrder ==
  (shpPc \in {"loop", "returned", "thrown"} /\ ShpWellFormed) =>
    /\ shpPc # "thrown"
    /\ Len(shpFile.records) <= Len(shpSrc.recs)
    /\ \A i \in 1..Len(shpFile.records) :
         /\ shpFile.records[i].shape.type = shpSrc.recs[i].type
         /\ shpFile.records[i].number = i
    /\ shpPc = "returned" => Len(shpFile.records) = Len(shpSrc.recs)

C1_Witness ==
  /\ shpPc = "returned"
  /\ ShpWellFormed
  /\ Len(shpFile.records) = 2
  /\ shpFile.records[1].shape.type = SHP_POLYGON
  /\ shpFile.records[2].shape.type = SHP_MULTIPOINT

\* what the caller of SHPParser.parse has in hand
ShpOutcome ==
  CASE shpPc = "returned" -> Ok(shpFile)
    [] shpPc = "thrown" -> Throw(shpErr)
    [] OTHER -> NoFile

\* C12: a buffer whose first four bytes, read big-endian, are not 0x0000270a
\* makes the parse throw the file-code error at its first step, whatever follows
\* those bytes and even when nothing follows them, and the caller gets the error
\* and no file.
C12_BadFileCodeFailsFirst ==
  (shpSrc.fileCode # FILE_CODE /\ shpPc # "start") =>
    /\ shpPc = "thrown"
    /\ shpErr = [name |-> "Error", message |-> "Unknown file code", code |-> shpSrc.fileCode]
    /\ shpFile = NoFile
    /\ ShpOutcome = Throw(shpErr)
    /\ SHPParser_parse(arrayBuffer) = ShpOutcome

C12_Witness ==
  /\ shpPc = "thrown"
  /\ Len(arrayBuffer) = 4
  /\ shpSrc.fileCode = FILE_CODE + 1
  /\ shpErr.message = "Unknown file code"
  /\ shpErr.code = FILE_CODE + 1

\* the whole file is in the buffer, its file code is right and every declared
\* content length is the payload size, so record i starts where record i - 1 ends
ShpAligned ==
  /\ arrayBuffer = EncFile(shpSrc)
  /\ shpSrc.fileCode = FILE_CODE
  /\ shpSrc.lenDelta = 0

\* record i is the first of the file whose type code is in `codes`, and every
\* record before it has a supported type
FirstOutside(i, codes) ==
  /\ i \in 1..Len(shpSrc.recs)
  /\ shpSrc.recs[i].type \in codes
  /\ \A j \in 1..(i - 1) : shpSrc.recs[j].type \in SupportedTypes

ZMCodes == {11, 13, 15, 18, 21, 23, 25, 28, 31}

\* the parse threw inside the record loop, at a record whose type code can be read
ThrownAtRecord ==
  /\ shpPc = "thrown"
  /\ shpFile # NoFile
  /\ InRange(arrayBuffer, idx + 8, 4)

\* C13: a record whose type code is one of the nine Z, M and MultiPatch codes is
\* never decoded; the parse throws there, and the error carries the code and the
\* name of that code (PointZ for 11), not the error of an unknown code.
C13_UnsupportedCodeIsNamed ==
  /\ (ThrownAtRecord /\ getInt32(arrayBuffer, idx + 8, TRUE) \in ZMCodes) =>
       /\ shpErr.cause = [name |-> "Error", message |-> "Shape type not supported",
                          code |-> getInt32(arrayBuffer, idx + 8, TRUE),
                          label |-> NotSupportedShapeType[getInt32(arrayBuffer, idx + 8, TRUE)]]
       /\ shpErr.cause.code = 11 => shpErr.cause.label = "PointZ"
  /\ (ShpAligned /\ shpPc \in {"loop", "returned", "thrown"}) =>
       \A i \in 1..Len(shpSrc.recs) :
         FirstOutside(i, ZMCodes) =>
           /\ Len(shpFile.records) < i
           /\ shpPc # "returned"
           /\ shpPc = "thrown" =>
                /\ shpErr.record = i
                /\ shpErr.cause.message = "Shape type not supported"
                /\ shpErr.cause.code = shpSrc.recs[i].type
                /\ shpErr.cause.label = NotSupportedShapeType[shpSrc.recs[i].type]

C13_Witness ==
  /\ ShpAligned
  /\ shpPc = "thrown"
  /\ FirstOutside(2, {31})
  /\ shpErr.cause.code = 31
  /\ shpErr.cause.label = "MultiPatch"

\* C14: a record whose type code is neither 0, 1, 3, 5, 8 nor one of the nine
\* Z, M and MultiPatch codes is never decoded; the parse throws there with the
\* unknown-type error, which carries the code and the offset of the payload and
\* whose message is not the message of the unsupported-shape error.
C14_UnknownCodeIsAFormatError ==
  /\ (ThrownAtRecord /\ getInt32(arrayBuffer, idx + 8, TRUE) \notin SupportedTypes \cup ZMCodes) =>
       /\ shpErr.cause = [name |-> "Error", message |-> "Unknown shape type",
                          at |-> idx + 8, code |-> getInt32(arrayBuffer, idx + 8, TRUE)]
       /\ shpErr.cause.message # "Shape type not supported"
       /\ "label" \notin DOMAIN shpErr.cause
  /\ (ShpAligned /\ shpPc \in {"loop", "returned", "thrown"}) =>
       \A i \in 1..Len(shpSrc.recs) :
         FirstOutside(i, {shpSrc.recs[i].type} \ (SupportedTypes \cup ZMCodes)) =>
           /\ Len(shpFile.records) < i
           /\ shpPc # "returned"
           /\ shpPc = "thrown" =>
                /\ shpErr.record = i
                /\ shpErr.cause.message = "Unknown shape type"
                /\ shpErr.cause.code = shpSrc.recs[i].type

C14_Witness ==
  /\ ShpAligned
  /\ shpPc = "thrown"
  /\ FirstOutside(2, {2})
  /\ shpErr.cause.message = "Unknown shape type"
  /\ shpErr.cause.code = 2

\* C15: when the decoding of a record's payload fails, for an unsupported or
\* unknown type code or for a payload that runs past the end of the buffer, the
\* parse throws an error that carries the record number read from that record's
\* header, and the caller gets that error and none of the records decoded
\* before it.
C15_PayloadFailureNamesRecord ==
  (shpPc = "thrown" /\ shpFile # NoFile /\ InRange(arrayBuffer, idx, 8)) =>
    /\ ~parseShape(arrayBuffer, idx + 8, getInt32(arrayBuffer, idx + 4, FALSE)).ok
    /\ shpErr.message = "Shape parsing error"
    /\ shpErr.record = getInt32(arrayBuffer, idx, FALSE)
    /\ ShpAligned => shpErr.record = Len(shpFile.records) + 1
    /\ ShpOutcome = Throw(shpErr)
    /\ "records" \notin DOMAIN ShpOutcome.err
    /\ SHPParser_parse(arrayBuffer) = ShpOutcome

C15_Witness ==
  /\ shpPc = "thrown"
  /\ shpFile # NoFile
  /\ Len(shpFile.records) = 1
  /\ shpFile.records[1].shape.type = SHP_POLYGON
  /\ shpErr.message = "Shape parsing error"
  /\ shpErr.record = 2
  /\ shpErr.cause = RangeError

\* C21: every iteration of the record loop that completes leaves the cursor
\* strictly after the offset it started from, whatever content length the
\* record header declares (zero and negative values included), so no offset is
\* read twice as a record header.
C21_CursorMovesForward ==
  [][(shpPc = "loop" /\ shpPc' = "loop") => idx' > idx]_vars

\* C22: an iteration of the record loop whose 8-byte header is readable and
\* whose payload decodes leaves the cursor at payload start + 2 * declared
\* content length and appends the record with that declared length, whatever
\* the shape type and the number of bytes the decoder read; the declared length
\* plays no part in whether the record is accepted: the iteration throws
\* exactly when the decoding of the payload throws.
C22_NextHeaderAtDeclaredLength ==
  [][(shpPc = "loop" /\ idx < shpFile.byteLength /\ InRange(arrayBuffer, idx, 8)) =>
       LET number == getInt32(arrayBuffer, idx, FALSE)
           length == getInt32(arrayBuffer, idx + 4, FALSE)
           shape == parseShape(arrayBuffer, idx + 8, 0)
       IN IF shape.ok
            THEN /\ shpPc' = "loop"
                 /\ idx' = (idx + 8) + 2 * length
                 /\ shpFile'.records =
                      Append(shpFile.records,
                             [number |-> number, length |-> length, shape |-> shape.v])
            ELSE shpPc' = "thrown"]_vars

\* a Polygon whose declared length is not the size of the payload decoded was
\* accepted, the cursor is where the declared length puts it, off the start of
\* the next record written, and the loop goes on from there
C22_Witness ==
  /\ shpPc = "loop"
  /\ shpFile # NoFile
  /\ Len(shpFile.records) = 1
  /\ shpFile.records[1].shape.type = SHP_POLYGON
  /\ 2 * shpFile.records[1].length # DecodedBytes(shpFile.records[1].shape)
  /\ idx = 108 + 2 * shpFile.records[1].length
  /\ idx # 108 + DecodedBytes(shpFile.records[1].shape)
  /\ idx < shpFile.byteLength

-----------------------------------------------------------------------------
(* Claims about toGeojson *)

GeomKind(t) ==
  CASE t = SHP_POINT -> "Point"
    [] t = SHP_POLYLINE -> "LineString"
    [] t = SHP_POLYGON -> "Polygon"
    [] t = SHP_MULTIPOINT -> "MultiPoint"
    [] OTHER -> "none"

\* the positions of a geometry, flattened in order
Vertices(g) ==
  CASE g.type = "Point" -> <<g.coordinates>>
    [] g.type = "Polygon" -> Flatten(g.coordinates)
    [] OTHER -> g.coordinates

\* the (x, y) pairs of a shape, in file order
PointPairs(shape) ==
  IF shape.type = SHP_POINT
    THEN << <<shape.content.x, shape.content.y>> >>
    ELSE [k \in 1..(Len(shape.content.points) \div 2) |->
            <<shape.content.points[2 * k - 1], shape.content.points[2 * k]>>]

Built == geoPc \in {"forEach", "returned"}

\* C3: the features built so far are one per shape record, in file order;
\* feature i has the geometry kind of shape record i, each of its positions is
\* the transform of a point of shape record i, and its properties are attribute
\* record i (undefined when the table has no record i).
C3_FeaturesPairedByIndex ==
  Built =>
    /\ Len(geojson.features) = geoI
    /\ \A i \in 1..Len(geojson.features) :
         LET f == geojson.features[i]
             src == geoSrc.recs[i]
         IN /\ f.type = "Feature"
            /\ f.geometry.type = GeomKind(src.type)
            /\ \A v \in { Vertices(f.geometry)[k] : k \in 1..Len(Vertices(f.geometry)) } :
                 \E q \in 1..Len(PointPairs(src)) : v = transform(EPSGUser, PointPairs(src)[q])
            /\ f.properties = IF i <= geoSrc.nDbf THEN [name |-> AttrNames[i]] ELSE Undefined

C3_Witness ==
  /\ geoPc = "returned"
  /\ Len(geojson.features) = 2
  /\ geojson.features[1].geometry.type = "Point"
  /\ geojson.features[2].geometry.type = "LineString"
  /\ geojson.features[1].properties = [name |-> "Taipei"]
  /\ geojson.features[2].properties = [name |-> "Tainan"]

\* every start index of every Polygon record lies inside its points
PartsInside ==
  \A i \in 1..Len(geoShp.records) :
    LET shape == geoShp.records[i].shape IN
      shape.type = SHP_POLYGON =>
        \A p \in 1..Len(shape.content.parts) :
          shape.content.parts[p] \in 0..(Len(shape.content.points) \div 2)

\* C5 (as claimed): a toGeojson call on records the decoder accepted never
\* throws and returns one feature per decoded record.  Stated here for the files
\* whose Polygon start indices all lie inside the points.
C5_EveryDecodedRecordBecomesAFeature ==
  (geoPc \in {"returned", "thrown"} /\ PartsInside) =>
    /\ geoPc = "returned"
    /\ Len(geojson.features) = Len(geoShp.records)

\* C6: a Point, Polyline or MultiPoint record becomes a Point, LineString or
\* MultiPoint whose positions are the transforms of the decoded point pairs, one
\* per pair and in file order, whatever the parts array holds; where the
\* transform leaves every pair of the record unchanged, the positions are the
\* decoded pairs themselves.
C6_PointsLinesMultiPoints ==
  Built =>
    \A i \in 1..Len(geojson.features) :
      LET shape == geoShp.records[i].shape
          g == geojson.features[i].geometry
          pairs == PointPairs(shape)
      IN shape.type \in {SHP_POINT, SHP_POLYLINE, SHP_MULTIPOINT} =>
           /\ g.type = GeomKind(shape.type)
           /\ Vertices(g) = [k \in 1..Len(pairs) |-> transform(EPSGUser, pairs[k])]
           /\ (\A k \in 1..Len(pairs) : transform(EPSGUser, pairs[k]) = pairs[k])
                => Vertices(g) = pairs

C6_Witness ==
  /\ geoPc = "returned"
  /\ EPSGUser = WGS84
  /\ \E i \in 1..Len(geojson.features) :
       /\ geoShp.records[i].shape.type = SHP_POLYLINE
       /\ geoShp.records[i].shape.content.parts = <<1, 0>>
       /\ geojson.features[i].geometry.coordinates = << <<F1_0, F2_0>>, <<F3_0_up, F6_0_up>> >>

\* the parts of a Polygon are k >= 1 non-decreasing start indices in 0..n
PartsOrdered(shape) ==
  LET parts == shape.content.parts
      n == Len(shape.content.points) \div 2
  IN /\ Len(parts) >= 1
     /\ \A p \in 1..Len(parts) : parts[p] \in 0..n
     /\ \A p \in 1..(Len(parts) - 1) : parts[p] <= parts[p + 1]

\* the reprojected points with indices from..to-1 (counted from 0)
Span(shape, from, to) ==
  [k \in 1..(to - from) |-> transform(EPSGUser, PointPairs(shape)[from + k])]

\* C7 (as claimed): a Polygon with k >= 1 non-decreasing start indices in 0..n
\* becomes k rings, ring j being the reprojected points from parts[j] up to but
\* excluding parts[j+1] (up to n for the last ring).
C7_RingsFollowParts ==
  Built =>
    \A i \in 1..Len(geojson.features) :
      LET shape == geoShp.records[i].shape
          g == geojson.features[i].geometry
          parts == shape.content.parts
          n == Len(shape.content.points) \div 2
      IN (shape.type = SHP_POLYGON /\ PartsOrdered(shape)) =>
           /\ g.type = "Polygon"
           /\ Len(g.coordinates) = Len(parts)
           /\ \A j \in 1..Len(parts) :
                g.coordinates[j] =
                  Span(shape, parts[j], IF j < Len(parts) THEN parts[j + 1] ELSE n)

\* C8: the bbox is the two header corners (minX, minY) and (maxX, maxY), each
\* passed through the transform, whatever the shape records are.
C8_BboxFromHeaderCorners ==
  Built =>
    LET b == geoSrc.bbox
        lo == transform(EPSGUser, <<b[1], b[2]>>)
        hi == transform(EPSGUser, <<b[3], b[4]>>)
    IN geojson.bbox = <<lo[1], lo[2], hi[1], hi[2]>>

C8_Witness ==
  /\ geoPc = "returned"
  /\ EPSGUser = TM2
  /\ geoSrc.bbox = <<F1_0, F2_0, F121_5, F25_0>>
  /\ Len(geojson.features) = 2
  /\ geojson.bbox[3] = <<"lon", TM2.title, F121_5, F25_0>>

\* what the caller of toGeojson has in hand
GeoOutcome ==
  CASE geoPc = "returned" -> Ok(geojson)
    [] geoPc = "thrown" -> Throw(geoErr)
    [] OTHER -> NoFile

\* the type codes toGeojson maps to a geometry
MappedTypes == {SHP_POINT, SHP_POLYLINE, SHP_POLYGON, SHP_MULTIPOINT}

\* C16: a shape record whose type toGeojson maps to no geometry never becomes
\* a Feature; the callback throws there with an error that carries the type
\* code, and the caller gets that error and no FeatureCollection, whatever
\* Features were built for the records before it.
C16_UnmappedTypeFailsConversion ==
  geoPc \in {"forEach", "returned", "thrown"} =>
    \A i \in 1..Len(geoSrc.recs) :
      ( /\ geoSrc.recs[i].type \notin MappedTypes
        /\ \A j \in 1..(i - 1) : geoFeature(EPSGUser, geoShp, geoDbf, j - 1).ok ) =>
        /\ Len(geojson.features) < i
        /\ geoPc # "returned"
        /\ geoPc = "thrown" =>
             /\ geoI = i - 1
             /\ geoErr = [name |-> "Error", message |-> "Unsupported shape type",
                          code |-> geoSrc.recs[i].type]
             /\ GeoOutcome = Throw(geoErr)
             /\ toGeojson(EPSGUser, geoShp, geoDbf) = GeoOutcome

C16_Witness ==
  /\ geoPc = "thrown"
  /\ Len(geoSrc.recs) = 2
  /\ geoSrc.recs[2].type = SHP_NULL
  /\ Len(geojson.features) = 1
  /\ geojson.features[1].geometry.type = "Point"
  /\ geoErr.message = "Unsupported shape type"
  /\ geoErr.code = SHP_NULL

\* the vertices of the record's geometry: one for a Point, pointCount for the
\* other types
VertexCount(shape) ==
  CASE shape.type = SHP_POINT -> 1
    [] shape.type \in {SHP_POLYLINE, SHP_POLYGON, SHP_MULTIPOINT} ->
         Len(shape.content.points) \div 2
    [] OTHER -> 0

RECURSIVE TotalVertices(_, _)
TotalVertices(shp, n) ==
  IF n = 0 THEN 0 ELSE VertexCount(shp.records[n].shape) + TotalVertices(shp, n - 1)

\* C23: when toGeojson returns, TransCoord was invoked once for every vertex of
\* every geometry and once for each of the two corners of the bounding box: the
\* total number of vertices plus 2.
C23_OneTransformPerPair ==
  geoPc = "returned" =>
    transCalls = TotalVertices(geoShp, Len(geoShp.records)) + 2

-----------------------------------------------------------------------------
(* loadshp: SpecLoad (calls that may overlap) and SpecPoint (one call) *)

\* the projections Projection.projections.get finds, among those the inputs name
Projections == {"longlat", "merc", "tmerc", "utm"}

\* a .prj text whose projection proj4 does not implement
WinkelTripel == [projName |-> "Winkel_Tripel", datumCode |-> "WGS84", title |-> "World Winkel Tripel"]

STR_name == <<110, 97, 109, 101>>
STR_Taipei == <<84, 97, 105, 112, 101, 105>>
STR_Tainan == <<84, 97, 105, 110, 97, 110>>
STR_A == <<65>>
STR_SpaceX == <<32, 120>>
\* "1.00000000000e+003"
STR_Sci == <<49, 46, 48, 48, 48, 48, 48, 48, 48, 48, 48, 48, 48, 101, 43, 48, 48, 51>>

\* a table with the single character field `name`
NameTable(day, width, values, cut) ==
  [day |-> day,
   fields |-> << [name |-> STR_name, type |-> 67, fieldLength |-> width] >>,
   rows |-> [k \in 1..Len(values) |-> <<values[k]>>],
   cut |-> cut]

ShpOf(fileCode, bbox, recs) ==
  [fileCode |-> fileCode, lenDelta |-> 0, bbox |-> bbox, recs |-> recs]

\* an archive of one Point (x, y) with header box (x, y, x, y) and one record
PointArchive(x, y, v, day, prj) ==
  [shp |-> ShpOf(FILE_CODE, <<x, y, x, y>>, <<Point(x, y)>>),
   dbf |-> NameTable(day, 18, <<v>>, 0),
   prj |-> prj]

PointArchives ==
  { PointArchive(xy[1], xy[2], v, day, prj) :
      xy \in { <<F121_5, F25_0>>, <<F3_0, F6_0>> },
      v \in { STR_Taipei, STR_A, <<>>, STR_SpaceX, STR_Sci },
      day \in {3, 13},
      prj \in { NoFile, WGS84 } }

TwoRecs == <<Point(F1_0, F2_0), Poly(SHP_POLYLINE, <<0>>, <<F5_0, F7_0, F1_0, F2_0>>)>>

Box == <<F1_0, F2_0, F5_0, F7_0>>

\* archives that convert, that disagree on their record counts, that lack an
\* entry, and that fail at the projection, the .shp or the .dbf
LoadArchives ==
  { PointArchive(F121_5, F25_0, STR_Taipei, 3, WGS84),
    [shp |-> ShpOf(FILE_CODE, Box, TwoRecs),
     dbf |-> NameTable(3, 6, <<STR_Taipei, STR_Tainan>>, 0), prj |-> TM2],
    [shp |-> ShpOf(FILE_CODE, Box, <<Point(F5_0, F7_0)>>),
     dbf |-> NameTable(3, 6, <<STR_Tainan>>, 0), prj |-> NoFile],
    [shp |-> ShpOf(FILE_CODE, Box, TwoRecs),
     dbf |-> NameTable(3, 6, <<STR_Taipei>>, 0), prj |-> NoFile],
    [shp |-> ShpOf(FILE_CODE, Box, TwoRecs), dbf |-> NoFile, prj |-> NoFile],
    [shp |-> NoFile, dbf |-> NameTable(3, 6, <<STR_Tainan>>, 0), prj |-> TM2],
    [shp |-> ShpOf(FILE_CODE, Box, <<Point(F5_0, F7_0)>>),
     dbf |-> NameTable(3, 6, <<STR_Tainan>>, 0), prj |-> WinkelTripel],
    [shp |-> ShpOf(FILE_CODE + 1, Box, <<Point(F5_0, F7_0)>>),
     dbf |-> NameTable(3, 6, <<STR_Tainan>>, 0), prj |-> TM2],
    [shp |-> ShpOf(FILE_CODE, Box, <<Point(F5_0, F7_0)>>),
     dbf |-> NameTable(3, 6, <<STR_Tainan>>, 40), prj |-> UTM51] }

ConfigsOf(archives) == { [url |-> a, encoding |-> "utf-8"] : a \in archives }

\* defs "EPSG:3857", one of the systems proj4 knows without a .prj
PseudoMercator ==
  [projName |-> "merc", datumCode |-> "none", title |-> "WGS 84 / Pseudo-Mercator"]

\* a one-point archive without a .prj entry
PlainArchive ==
  [shp |-> ShpOf(FILE_CODE, Box, <<Point(F5_0, F7_0)>>),
   dbf |-> NameTable(3, 6, <<STR_Tainan>>, 0), prj |-> NoFile]

\* configurations that name the EPSG option and differ in nothing else
EpsgConfigs ==
  { [url |-> PlainArchive, encoding |-> "utf-8", EPSG |-> e] : e \in {4326, 3857} }

\* line 46: the EPSG option as destructured, 4326 when omitted
EPSGOf(cfg) == IF "EPSG" \in DOMAIN cfg THEN cfg.EPSG ELSE 4326

\* proj4("EPSG:<code>") for the codes the registry defines
EPSGProjection(code) == IF code = 3857 THEN PseudoMercator ELSE WGS84

LoadInit ==
  /\ ShpIdle
  /\ GeoIdle
  /\ DbfIdle
  /\ EPSGUser = Undefined
  /\ defs = Undefined
  /\ objectURLs = {}
  /\ pool = ConfigsOf(LoadArchives) \cup EpsgConfigs
  /\ callsLeft = MaxCalls
  /\ overlap = FALSE
  /\ callPc = [c \in Calls |-> "idle"]
  /\ config = [c \in Calls |-> NoFile]
  /\ shpBuffer = [c \in Calls |-> <<>>]
  /\ loadedShp = [c \in Calls |-> NoFile]
  /\ dbfBuffer = [c \in Calls |-> <<>>]
  /\ loadedDbf = [c \in Calls |-> NoFile]
  /\ settled = [c \in Calls |-> NoFile]

PointInit ==
  /\ ShpIdle
  /\ GeoIdle
  /\ DbfIdle
  /\ EPSGUser = Undefined
  /\ defs = Undefined
  /\ objectURLs = {}
  /\ pool = ConfigsOf(PointArchives)
  /\ callsLeft = 1
  /\ overlap = FALSE
  /\ callPc = [c \in Calls |-> "idle"]
  /\ config = [c \in Calls |-> NoFile]
  /\ shpBuffer = [c \in Calls |-> <<>>]
  /\ loadedShp = [c \in Calls |-> NoFile]
  /\ dbfBuffer = [c \in Calls |-> <<>>]
  /\ loadedDbf = [c \in Calls |-> NoFile]
  /\ settled = [c \in Calls |-> NoFile]

InFlight(c) == callPc[c] \notin {"idle", "resolved", "rejected"}

LoadError(message) == [name |-> "Error", message |-> message]

\* the promise of call c rejects
Reject(c, error) ==
  /\ callPc' = [callPc EXCEPT ![c] = "rejected"]
  /\ settled' = [settled EXCEPT ![c] = Throw(error)]

\* a variant of LoadStart without lines 57-58: EPSGUser is set only when it is
\* still undefined
LoadStartMutKeepProjection(c) ==
  /\ ~InFlight(c)
  /\ callsLeft > 0
  /\ callsLeft' = callsLeft - 1
  /\ \E cfg \in pool : config' = [config EXCEPT ![c] = cfg]
  /\ EPSGUser' = IF EPSGUser = Undefined THEN WGS84 ELSE EPSGUser
  /\ overlap' = (overlap \/ \E d \in Calls \ {c} : InFlight(d))
  /\ callPc' = [callPc EXCEPT ![c] = "unzip"]
  /\ shpBuffer' = [shpBuffer EXCEPT ![c] = <<>>]
  /\ loadedShp' = [loadedShp EXCEPT ![c] = NoFile]
  /\ dbfBuffer' = [dbfBuffer EXCEPT ![c] = <<>>]
  /\ loadedDbf' = [loadedDbf EXCEPT ![c] = NoFile]
  /\ settled' = [settled EXCEPT ![c] = NoFile]
  /\ UNCHANGED <<dbfVars, shpVars, geoVars, defs, objectURLs, pool>>

\* lines 45-70: the page calls loadshp; the call runs up to its first await
LoadStart(c) ==
  /\ ~InFlight(c)
  /\ callsLeft > 0
  /\ callsLeft' = callsLeft - 1
  /\ \E cfg \in pool : config' = [config EXCEPT ![c] = cfg]
  /\ EPSGUser' = WGS84
  /\ overlap' = (overlap \/ \E d \in Calls \ {c} : InFlight(d))
  /\ callPc' = [callPc EXCEPT ![c] = "unzip"]
  /\ shpBuffer' = [shpBuffer EXCEPT ![c] = <<>>]
  /\ loadedShp' = [loadedShp EXCEPT ![c] = NoFile]
  /\ dbfBuffer' = [dbfBuffer EXCEPT ![c] = <<>>]
  /\ loadedDbf' = [loadedDbf EXCEPT ![c] = NoFile]
  /\ settled' = [settled EXCEPT ![c] = NoFile]
  /\ UNCHANGED <<dbfVars, shpVars, geoVars, defs, objectURLs, pool>>

\* a variant of LoadUnzip whose test of line 76 looks at the .shp entry only
LoadUnzipMutShpOnly(c) ==
  /\ callPc[c] = "unzip"
  /\ IF config[c].url.shp = NoFile
       THEN Reject(c, LoadError("Missing .shp or .dbf file in the ZIP archive."))
       ELSE /\ callPc' = [callPc EXCEPT ![c] =
                            IF config[c].url.prj = NoFile THEN "shpBuffer" ELSE "prj"]
            /\ UNCHANGED settled
  /\ UNCHANGED <<dbfVars, shpVars, geoVars, EPSGUser, defs, objectURLs, pool, callsLeft, overlap,
                 config, shpBuffer, loadedShp, dbfBuffer, loadedDbf>>

\* lines 72-81: the archive is open; its entries are looked up
LoadUnzip(c) ==
  /\ callPc[c] = "unzip"
  /\ IF config[c].url.shp = NoFile \/ config[c].url.dbf = NoFile
       THEN Reject(c, LoadError("Missing .shp or .dbf file in the ZIP archive."))
       ELSE /\ callPc' = [callPc EXCEPT ![c] =
                            IF config[c].url.prj = NoFile THEN "shpBuffer" ELSE "prj"]
            /\ UNCHANGED settled
  /\ UNCHANGED <<dbfVars, shpVars, geoVars, EPSGUser, defs, objectURLs, pool, callsLeft, overlap,
                 config, shpBuffer, loadedShp, dbfBuffer, loadedDbf>>

\* lines 82-91: the .prj text is registered and becomes the source projection
LoadPrj(c) ==
  /\ callPc[c] = "prj"
  /\ defs' = config[c].url.prj
  /\ IF defs'.projName \in Projections
       THEN /\ EPSGUser' = defs'
            /\ callPc' = [callPc EXCEPT ![c] = "shpBuffer"]
            /\ UNCHANGED settled
       ELSE /\ Reject(c, LoadError("Unsupported Projection"))
            /\ UNCHANGED EPSGUser
  /\ UNCHANGED <<dbfVars, shpVars, geoVars, objectURLs, pool, callsLeft, overlap, config, shpBuffer,
                 loadedShp, dbfBuffer, loadedDbf>>

\* line 92 and SHPParser.load up to its fetch: the .shp bytes are extracted
LoadShpBuffer(c) ==
  /\ callPc[c] = "shpBuffer"
  /\ shpBuffer' = [shpBuffer EXCEPT ![c] = EncFile(config[c].url.shp)]
  /\ objectURLs' = objectURLs \cup {<<c, "shp">>}
  /\ callPc' = [callPc EXCEPT ![c] = "shpLoad"]
  /\ UNCHANGED <<dbfVars, shpVars, geoVars, EPSGUser, defs, pool, callsLeft, overlap, config, loadedShp,
                 dbfBuffer, loadedDbf, settled>>

\* SHPParser.load after its fetch, then line 94
LoadShp(c) ==
  /\ callPc[c] = "shpLoad"
  /\ objectURLs' = objectURLs \ {<<c, "shp">>}
  /\ LET parsed == SHPParser_parse(shpBuffer[c]) IN
       IF parsed.ok
         THEN /\ loadedShp' = [loadedShp EXCEPT ![c] = parsed.v]
              /\ callPc' = [callPc EXCEPT ![c] = "dbfBuffer"]
              /\ UNCHANGED settled
         ELSE /\ Reject(c, [name |-> "Error", message |-> "Failed to load SHP",
                            cause |-> parsed.err])
              /\ UNCHANGED loadedShp
  /\ UNCHANGED <<dbfVars, shpVars, geoVars, EPSGUser, defs, pool, callsLeft, overlap, config,
                 shpBuffer, dbfBuffer, loadedDbf>>

\* lines 95-98 and DBFParser.load up to its fetch: the .dbf bytes are extracted
LoadDbfBuffer(c) ==
  /\ callPc[c] = "dbfBuffer"
  /\ dbfBuffer' = [dbfBuffer EXCEPT ![c] = EncDbf(config[c].url.dbf)]
  /\ objectURLs' = objectURLs \cup {<<c, "dbf">>}
  /\ callPc' = [callPc EXCEPT ![c] = "dbfLoad"]
  /\ UNCHANGED <<dbfVars, shpVars, geoVars, EPSGUser, defs, pool, callsLeft, overlap, config,
                 shpBuffer, loadedShp, loadedDbf, settled>>

\* DBFParser.load after its fetches: decode, parse, revoke on success only
LoadDbf(c) ==
  /\ callPc[c] = "dbfLoad"
  /\ LET parsed == DBFParser_parse(dbfBuffer[c],
                                   TextDecode(dbfBuffer[c], config[c].encoding),
                                   config[c].encoding)
     IN
       IF parsed.ok
         THEN /\ loadedDbf' = [loadedDbf EXCEPT ![c] = parsed.v]
              /\ objectURLs' = objectURLs \ {<<c, "dbf">>}
              /\ callPc' = [callPc EXCEPT ![c] = "assemble"]
              /\ UNCHANGED settled
         ELSE /\ Reject(c, parsed.err)
              /\ UNCHANGED <<loadedDbf, objectURLs>>
  /\ UNCHANGED <<dbfVars, shpVars, geoVars, EPSGUser, defs, pool, callsLeft, overlap, config,
                 shpBuffer, loadedShp, dbfBuffer>>

\* line 100: toGeojson runs to completion with the EPSGUser of that moment
LoadAssemble(c) ==
  /\ callPc[c] = "assemble"
  /\ LET r == toGeojson(EPSGUser, loadedShp[c], loadedDbf[c]) IN
       /\ settled' = [settled EXCEPT ![c] = r]
       /\ callPc' = [callPc EXCEPT ![c] = IF r.ok THEN "resolved" ELSE "rejected"]
  /\ UNCHANGED <<dbfVars, shpVars, geoVars, EPSGUser, defs, objectURLs, pool, callsLeft, overlap,
                 config, shpBuffer, loadedShp, dbfBuffer, loadedDbf>>

LoadNext ==
  \E c \in Calls :
    \/ LoadStart(c)
    \/ LoadUnzip(c)
    \/ LoadPrj(c)
    \/ LoadShpBuffer(c)
    \/ LoadShp(c)
    \/ LoadDbfBuffer(c)
    \/ LoadDbf(c)
    \/ LoadAssemble(c)

SpecLoad == LoadInit /\ [][LoadNext]_vars

SpecPoint == PointInit /\ [][LoadNext]_vars

-----------------------------------------------------------------------------
(* Claims about loadshp *)

\* call c has settled
Settled(c) == callPc[c] \in {"resolved", "rejected"}

\* call c has settled with what toGeojson returned or threw
Assembled(c) == Settled(c) /\ loadedDbf[c] # NoFile

\* the archive of call c holds exactly one Point and one row of one field
OnePoint(c) ==
  /\ config[c] \in ConfigsOf(PointArchives)
  /\ Len(config[c].url.shp.recs) = 1
  /\ Len(config[c].url.dbf.rows) = 1

PointX(c) == config[c].url.shp.recs[1].content.x

PointY(c) == config[c].url.shp.recs[1].content.y

PointValue(c) == config[c].url.dbf.rows[1][1]

\* the transform in force leaves the point of call c where it is
IdentityTransform(c) == transform(EPSGUser, <<PointX(c), PointY(c)>>) = <<PointX(c), PointY(c)>>

\* printable ASCII that fits the field, has no blank at either end and is not
\* in the scientific form
PlainText(v) ==
  /\ \A k \in 1..Len(v) : v[k] \in 32..126
  /\ Len(v) <= 18
  /\ Trim(v) = v
  /\ ~IsScientific(v)

OnePointCollection(x, y, v) ==
  [type |-> "FeatureCollection",
   bbox |-> <<x, y, x, y>>,
   features |-> << [type |-> "Feature",
                    geometry |-> [type |-> "Point", coordinates |-> <<x, y>>],
                    properties |-> (STR_name :> StringValue(v))] >>]

\* C2 as stated: an archive of one Point (x, y) with header box (x, y, x, y)
\* and a table of one field `name` and one record of ASCII value v, assembled
\* with an identity transform, resolves to the collection of the single Feature
\* Point [x, y] with properties {name: v} and bbox [x, y, x, y].
C2_OnePointEndToEnd ==
  \A c \in Calls :
    (Settled(c) /\ OnePoint(c) /\ IdentityTransform(c)) =>
      settled[c] = Ok(OnePointCollection(PointX(c), PointY(c), PointValue(c)))

\* C2, amended: the same for a value v of printable ASCII characters without a
\* blank at either end that is not in the scientific form d.ddddddddddde+ddd.
C2_OnePointPlainText ==
  \A c \in Calls :
    (Settled(c) /\ OnePoint(c) /\ IdentityTransform(c) /\ PlainText(PointValue(c))) =>
      settled[c] = Ok(OnePointCollection(PointX(c), PointY(c), PointValue(c)))

C2_Witness ==
  \E c \in Calls :
    /\ callPc[c] = "resolved"
    /\ OnePoint(c)
    /\ PointValue(c) = STR_Taipei
    /\ IdentityTransform(c)
    /\ settled[c] = Ok(OnePointCollection(F121_5, F25_0, STR_Taipei))

\* C4: whenever a call reaches the assembly step, the number of decoded shape
\* records equals the number of decoded attribute records.
C4_CountsAgreeAtAssembly ==
  \A c \in Calls :
    callPc[c] = "assemble" =>
      Len(loadedShp[c].records) = Len(loadedDbf[c].records)

\* the projection of a call's own archive: its .prj, or WGS84 without one
OwnProjection(c) == IF config[c].url.prj = NoFile THEN WGS84 ELSE config[c].url.prj

\* what the assembly of call c yields under the projection of its own archive
OwnResult(c) == toGeojson(OwnProjection(c), loadedShp[c], loadedDbf[c])

\* C9: calls that overlap in time each settle with what they would settle with
\* alone; in particular each is reprojected from its own archive's projection.
C9_OverlappingCallsIndependent ==
  \A c \in Calls : Assembled(c) => settled[c] = OwnResult(c)

\* C10: in a sequence of calls that never overlap, each call is reprojected from
\* the projection of its own .prj, or from WGS84 when it has none, whatever the
\* earlier calls carried and whether they resolved or rejected.
C10_SequentialCallsUseOwnProjection ==
  ~overlap => \A c \in Calls : Assembled(c) => settled[c] = OwnResult(c)

C10_Witness ==
  /\ ~overlap
  /\ defs = TM2
  /\ EPSGUser = WGS84
  /\ \E c, d \in Calls :
       /\ c # d
       /\ callPc[c] = "resolved"
       /\ config[c].url.prj = NoFile
       /\ settled[c].v.features[1].geometry.coordinates = <<F5_0, F7_0>>
       /\ callPc[d] = "rejected"
       /\ config[d].url.prj = TM2

\* C11: a call on an archive without a .prj entry is reprojected from the
\* coordinate system its EPSG option names (EPSG:4326 when the option is
\* omitted), so two such calls that differ only in EPSG settle with different
\* coordinates.
C11_EpsgOptionNamesSourceSystem ==
  ~overlap =>
    /\ \A c \in Calls :
         (Assembled(c) /\ config[c].url.prj = NoFile) =>
           settled[c] = toGeojson(EPSGProjection(EPSGOf(config[c])), loadedShp[c], loadedDbf[c])
    /\ \A c, d \in Calls :
         ( /\ callPc[c] = "resolved"
           /\ callPc[d] = "resolved"
           /\ config[c].url = config[d].url
           /\ config[c].url.prj = NoFile
           /\ EPSGOf(config[c]) # EPSGOf(config[d]) ) =>
           settled[c] # settled[d]

\* the archive of call c has no entry ending in .shp or none ending in .dbf
MissingEntry(c) == config[c].url.shp = NoFile \/ config[c].url.dbf = NoFile

MissingError == Throw(LoadError("Missing .shp or .dbf file in the ZIP archive."))

\* call c has not got as far as extracting an entry: no bytes, no parsed file
NothingLoaded(c) ==
  /\ shpBuffer[c] = <<>>
  /\ loadedShp[c] = NoFile
  /\ dbfBuffer[c] = <<>>
  /\ loadedDbf[c] = NoFile

\* C20: a call whose archive lacks the .shp or the .dbf entry is rejected with
\* the missing-entry error by the step that looks the entries up; that step
\* creates no object URL and stores no projection, and no parser has run for the
\* call.  A call whose archive has both entries and no .prj is never rejected
\* with that error nor before its .shp bytes were extracted, and it resolves
\* when the two files are sound.
C20_MissingEntryRejectsEarly ==
  /\ [](\A c \in Calls :
          callPc[c] # "idle" =>
            /\ MissingEntry(c) =>
                 /\ callPc[c] \in {"unzip", "rejected"}
                 /\ NothingLoaded(c)
                 /\ callPc[c] = "rejected" => settled[c] = MissingError
            /\ (~MissingEntry(c) /\ config[c].url.prj = NoFile /\ callPc[c] = "rejected") =>
                 /\ settled[c] # MissingError
                 /\ shpBuffer[c] # <<>>
            /\ (config[c].url = PlainArchive /\ Settled(c)) => callPc[c] = "resolved")
  /\ [][\A c \in Calls :
          (callPc[c] = "unzip" /\ callPc'[c] # "unzip" /\ MissingEntry(c)) =>
            /\ callPc'[c] = "rejected"
            /\ objectURLs' = objectURLs
            /\ defs' = defs
            /\ EPSGUser' = EPSGUser]_vars

C20_Witness ==
  \E c, d \in Calls :
    /\ callPc[c] = "rejected"
    /\ config[c].url.shp = NoFile
    /\ config[c].url.prj = TM2
    /\ settled[c] = MissingError
    /\ defs = Undefined
    /\ callPc[d] = "resolved"
    /\ config[d].url = PlainArchive

-----------------------------------------------------------------------------
(* DBFParser.parse as a state machine: SpecDbf *)

STR_cafe == <<99, 97, 102, 233>>
\* "\u00e9t\u00e9"
STR_ete == <<233, 116, 233>>
STR_population == <<112, 111, 112, 117, 108, 97, 116, 105, 111, 110>>
STR_city == <<99, 105, 116, 121>>
\* "1.00000000000E+003"
STR_SciUpper == <<49, 46, 48, 48, 48, 48, 48, 48, 48, 48, 48, 48, 48, 69, 43, 48, 48, 51>>
\* " 1.00000000000e+003", right-aligned in a wider field
STR_SpaceSci == <<32>> \o STR_Sci
\* "-1.00000000000e+003"
STR_MinusSci == <<45>> \o STR_Sci
\* "1.0000000000e+003": ten digits after the dot
STR_SciShort == <<49, 46, 48, 48, 48, 48, 48, 48, 48, 48, 48, 48, 101, 43, 48, 48, 51>>
\* "1.00000000000e-003"
STR_SciNeg == <<49, 46, 48, 48, 48, 48, 48, 48, 48, 48, 48, 48, 48, 101, 45, 48, 48, 51>>
STR_42 == <<52, 50>>
STR_Pi == <<51, 46, 49, 52>>
STR_Minus5 == <<45, 53>>
\* "a\rb"
STR_aCRb == <<97, 13, 98>>
\* "\u00e9\u20ac"
STR_Accents == <<233, 8364>>
\* "ABCDEFGHIJKLMNOPQRST"
STR_Wide == [k \in 1..20 |-> 64 + k]

MaxFields == 2
MaxRows == 2

\* the descriptors of the sample tables, in file order
DbfFieldSpecs ==
  << [name |-> STR_name, type |-> 67, fieldLength |-> 20],
     [name |-> STR_population, type |-> 78, fieldLength |-> 13],
     [name |-> STR_city, type |-> 67, fieldLength |-> 6] >>

DbfSampleValues ==
  { <<>>, STR_SpaceX, STR_Sci, STR_SciUpper, STR_SpaceSci, STR_MinusSci, STR_SciShort,
    STR_SciNeg, STR_42, STR_Pi, STR_Minus5, STR_aCRb, STR_Accents, STR_Wide }

DbfFiller(r, c) == IF (r + c) % 2 = 0 THEN STR_Taipei ELSE STR_Tainan

\* rows of n records for k fields: fillers, with at most one cell drawn from
\* DbfSampleValues
DbfRows(k, n) ==
  { [r \in 1..n |-> [c \in 1..k |-> IF <<r, c>> = at THEN v ELSE DbfFiller(r, c)]] :
      at \in ((1..n) \X (1..k)) \cup {<<0, 0>>}, v \in DbfSampleValues }

\* how the response text is obtained from the bytes: decoded with the table's
\* encoding, empty, cut off inside the first descriptor, with a lone surrogate
\* in place of every blank and every 'a', decoded with the other encoding
DbfResponseOf(kind, bytes, encoding) ==
  LET decoded == TextDecode(bytes, encoding) IN
    CASE kind = "decoded" -> decoded
      [] kind = "empty" -> <<>>
      [] kind = "short" -> SliceTo(decoded, 40)
      [] kind = "surrogates" ->
           [i \in 1..Len(decoded) |-> IF decoded[i] \in {32, 97} THEN 55357 ELSE decoded[i]]
      [] kind = "other" ->
           TextDecode(bytes, IF encoding = "utf-8" THEN "windows-1252" ELSE "utf-8")

\* how a table departs from the plain one: the header's day byte, the record
\* count written in the header relative to the rows present, the deletion flag,
\* the bytes missing at the end, the name of the first field, the response
\* text, whether the one cell that is not a filler may be any cell or the first
\* cell only, the encoding name handed to the parse ("same": the table's
\* encoding)
DbfVariants ==
  { [day |-> 3, delta |-> 0, flag |-> 32, cut |-> 0, name |-> STR_name, text |-> "decoded", wide |-> TRUE, arg |-> "same"],
    [day |-> 13, delta |-> 0, flag |-> 32, cut |-> 0, name |-> STR_name, text |-> "decoded", wide |-> TRUE, arg |-> "same"],
    [day |-> 3, delta |-> 0, flag |-> 42, cut |-> 0, name |-> STR_name, text |-> "decoded", wide |-> TRUE, arg |-> "same"],
    [day |-> 3, delta |-> 1, flag |-> 32, cut |-> 0, name |-> STR_name, text |-> "decoded", wide |-> FALSE, arg |-> "same"],
    [day |-> 3, delta |-> 0 - 1, flag |-> 32, cut |-> 0, name |-> STR_name, text |-> "decoded", wide |-> FALSE, arg |-> "same"],
    [day |-> 3, delta |-> 0, flag |-> 32, cut |-> 10, name |-> STR_name, text |-> "decoded", wide |-> FALSE, arg |-> "same"],
    [day |-> 3, delta |-> 0, flag |-> 32, cut |-> 0, name |-> STR_cafe, text |-> "decoded", wide |-> FALSE, arg |-> "same"],
    [day |-> 3, delta |-> 0, flag |-> 32, cut |-> 0, name |-> STR_ete, text |-> "decoded", wide |-> FALSE, arg |-> "same"],
    [day |-> 3, delta |-> 0, flag |-> 32, cut |-> 0, name |-> STR_name, text |-> "empty", wide |-> FALSE, arg |-> "same"],
    [day |-> 3, delta |-> 0, flag |-> 32, cut |-> 0, name |-> STR_name, text |-> "short", wide |-> FALSE, arg |-> "same"],
    [day |-> 3, delta |-> 0, flag |-> 32, cut |-> 0, name |-> STR_name, text |-> "surrogates", wide |-> FALSE, arg |-> "same"],
    [day |-> 3, delta |-> 0, flag |-> 32, cut |-> 0, name |-> STR_name, text |-> "other", wide |-> FALSE, arg |-> "same"],
    [day |-> 3, delta |-> 0, flag |-> 32, cut |-> 0, name |-> STR_name, text |-> "decoded", wide |-> FALSE, arg |-> "big5"],
    [day |-> 13, delta |-> 0, flag |-> 32, cut |-> 0, name |-> STR_name, text |-> "decoded", wide |-> FALSE, arg |-> "big5"] }

DbfEncodings == {"utf-8", "windows-1252"}

DbfSources ==
  UNION { UNION { UNION { { [encoding |-> e,
                             day |-> w.day,
                             declared |-> n + w.delta,
                             flag |-> w.flag,
                             cut |-> w.cut,
                             text |-> w.text,
                             arg |-> IF w.arg = "same" THEN e ELSE w.arg,
                             fields |-> [c \in 1..k |->
                                           IF c = 1
                                             THEN [DbfFieldSpecs[c] EXCEPT !.name = w.name]
                                             ELSE DbfFieldSpecs[c]],
                             rows |-> rows] :
                            e \in DbfEncodings,
                            rows \in { t \in DbfRows(k, n) :
                                         \/ w.wide
                                         \/ \A r \in 1..n : \A c \in 1..k :
                                              <<r, c>> # <<1, 1>> => t[r][c] = DbfFiller(r, c) } } :
                          w \in DbfVariants } :
                  n \in 0..MaxRows } :
          k \in 0..MaxFields }

DbfInit ==
  /\ ShpIdle
  /\ GeoIdle
  /\ LoadIdle
  /\ EPSGUser = Undefined
  /\ dbfSrc \in DbfSources
  /\ dbfBytes = EncDbfTable(dbfSrc)
  /\ dbfResponse = DbfResponseOf(dbfSrc.text, dbfBytes, dbfSrc.encoding)
  /\ dbfPc = "start"
  /\ dbfFile = NoFile
  /\ dbfOffset = offsetOf(dbfSrc.arg)
  /\ dbfNames = <<>>
  /\ dbfText = <<>>
  /\ dbfErr = NoError

\* lines 311-352: the fixed header
DbfParseHeader ==
  /\ dbfPc = "start"
  /\ LET h == dbfHeader(dbfBytes) IN
       IF h.ok
         THEN /\ dbfFile' = [version |-> h.v.version,
                             year |-> h.v.year,
                             month |-> h.v.month,
                             day |-> h.v.day,
                             numberOfRecords |-> h.v.numberOfRecords,
                             bytesInHeader |-> h.v.bytesInHeader,
                             bytesInRecord |-> h.v.bytesInRecord,
                             incompleteTransation |-> h.v.incompleteTransation,
                             encryptionFlag |-> h.v.encryptionFlag,
                             mdxFlag |-> h.v.mdxFlag,
                             languageDriverId |-> h.v.languageDriverId,
                             fields |-> <<>>,
                             fieldpos |-> 0,
                             records |-> <<>>]
              /\ dbfPc' = "names"
              /\ UNCHANGED dbfErr
         ELSE /\ dbfErr' = h.err
              /\ dbfPc' = "thrown"
              /\ UNCHANGED dbfFile
  /\ UNCHANGED <<dbfSrc, dbfBytes, dbfResponse, dbfOffset, dbfNames, dbfText,
                 shpVars, EPSGUser, geoVars, loadVars>>

\* lines 355-386: the descriptor text is cut out of the response and the
\* field names are read from it
DbfParseNames ==
  /\ dbfPc = "names"
  /\ LET rh == responseHeaderOf(dbfResponse, dbfOffset) IN
       /\ dbfOffset' = rh.offset
       /\ dbfNames' = fieldNames(rh.text)
  /\ dbfPc' = "fields"
  /\ UNCHANGED <<dbfSrc, dbfBytes, dbfResponse, dbfFile, dbfText, dbfErr,
                 shpVars, EPSGUser, geoVars, loadVars>>

\* lines 389-431: the descriptors are read from the bytes, then the record
\* text is cut out of the response
DbfParseFields ==
  /\ dbfPc = "fields"
  /\ LET fs == dbfFields(dbfBytes, dbfNames, 32, 1) IN
       IF fs.ok
         THEN /\ dbfFile' = [dbfFile EXCEPT !.fields = fs.v.fields,
                                            !.fieldpos = fs.v.idx + 1]
              /\ dbfText' = LastSegment(dbfResponse)
              /\ dbfPc' = "records"
              /\ UNCHANGED dbfErr
         ELSE /\ dbfErr' = fs.err
              /\ dbfPc' = "thrown"
              /\ UNCHANGED <<dbfFile, dbfText>>
  /\ UNCHANGED <<dbfSrc, dbfBytes, dbfResponse, dbfOffset, dbfNames,
                 shpVars, EPSGUser, geoVars, loadVars>>

\* lines 433-465: one iteration of the record loop
DbfParseRecord ==
  /\ dbfPc = "records"
  /\ Len(dbfFile.records) < dbfFile.numberOfRecords
  /\ LET r == dbfRecordFields(dbfFile.fields, 1, <<>>, dbfOffset, SliceFrom(dbfText, 1)) IN
       /\ dbfFile' = [dbfFile EXCEPT !.records = Append(@, RecordObject(r.pairs))]
       /\ dbfText' = r.text
  /\ UNCHANGED <<dbfSrc, dbfBytes, dbfResponse, dbfPc, dbfOffset, dbfNames, dbfErr,
                 shpVars, EPSGUser, geoVars, loadVars>>

\* line 467: the loop condition fails and the file is returned
DbfReturn ==
  /\ dbfPc = "records"
  /\ ~(Len(dbfFile.records) < dbfFile.numberOfRecords)
  /\ dbfPc' = "returned"
  /\ UNCHANGED <<dbfSrc, dbfBytes, dbfResponse, dbfFile, dbfOffset, dbfNames, dbfText, dbfErr,
                 shpVars, EPSGUser, geoVars, loadVars>>

DbfNext == DbfParseHeader \/ DbfParseNames \/ DbfParseFields \/ DbfParseRecord \/ DbfReturn

SpecDbf == DbfInit /\ [][DbfNext]_vars

-----------------------------------------------------------------------------
(* Claims about DBFParser.parse *)

\* what the caller of DBFParser.parse has in hand
DbfOutcome ==
  CASE dbfPc = "returned" -> Ok(dbfFile)
    [] dbfPc = "thrown" -> Throw(dbfErr)
    [] OTHER -> NoFile

\* the steps of SpecDbf compose to DBFParser.parse
DbfStepsAgree ==
  dbfPc \in {"returned", "thrown"} =>
    DbfOutcome = DBFParser_parse(dbfBytes, dbfResponse, dbfSrc.arg)

\* C17: whenever DBFParser.parse returns, the number of attribute records in
\* the file it returns equals the numberOfRecords value it read from the header,
\* which is the count the writer stored there, whatever the deletion flags and
\* however much record text the response holds.
C17_RecordCountIsHeaderCount ==
  dbfPc = "returned" =>
    /\ dbfFile.numberOfRecords = dbfSrc.declared
    /\ Len(dbfFile.records) = dbfFile.numberOfRecords

\* the same for headers whose count is not negative
C17_CountWhenNotNegative ==
  (dbfPc = "returned" /\ dbfSrc.declared >= 0) =>
    /\ dbfFile.numberOfRecords = dbfSrc.declared
    /\ Len(dbfFile.records) = dbfFile.numberOfRecords

\* the table is whole: no byte is missing, the header count is the number of
\* rows written and the response is the text decoded with the table's encoding
DbfComplete ==
  dbfSrc.cut = 0 /\ dbfSrc.declared = Len(dbfSrc.rows) /\ dbfSrc.text = "decoded"

\* the table was written in a single-byte encoding and is decoded with it
DbfSingleByte == dbfSrc.encoding \in Win1252Labels

\* the value written in row r, field c
DbfWritten(r, c) == dbfSrc.rows[r][c]

\* a written value the field can hold that has no blank at either end
DbfFits(r, c) ==
  /\ Len(DbfWritten(r, c)) <= dbfSrc.fields[c].fieldLength
  /\ Trim(DbfWritten(r, c)) = DbfWritten(r, c)

\* record r of the returned file holds the text v under the name of field c
DbfReturnedText(r, c, v) ==
  /\ r <= Len(dbfFile.records)
  /\ dbfSrc.fields[c].name \in DOMAIN dbfFile.records[r]
  /\ dbfFile.records[r][dbfSrc.fields[c].name] = StringValue(v)

\* the returned file has the field names that were written, in order
DbfNamesReturned ==
  /\ Len(dbfFile.fields) = Len(dbfSrc.fields)
  /\ \A c \in 1..Len(dbfSrc.fields) :
       Len(dbfSrc.fields[c].name) <= 10 => dbfFile.fields[c].name = dbfSrc.fields[c].name

\* C18: for a whole table written in a single-byte encoding and decoded with
\* it, the parse returns every field name of up to 10 characters and, for every
\* row and field, the text of the value written there when it fits the field
\* and has no leading or trailing whitespace.
C18_SingleByteRoundTrip ==
  (dbfPc = "returned" /\ DbfSingleByte /\ DbfComplete) =>
    /\ DbfNamesReturned
    /\ \A r \in 1..Len(dbfSrc.rows) : \A c \in 1..Len(dbfSrc.fields) :
         DbfFits(r, c) => DbfReturnedText(r, c, DbfWritten(r, c))

\* no value of the table holds a carriage return
DbfNoCR == \A r \in 1..Len(dbfSrc.rows) : \A c \in 1..Len(dbfSrc.fields) :
             CR \notin { DbfWritten(r, c)[k] : k \in 1..Len(DbfWritten(r, c)) }

\* the same when no value of the table holds a carriage return, for the values
\* that are not in the scientific form
C18_RoundTripWithoutCR ==
  (dbfPc = "returned" /\ DbfSingleByte /\ DbfComplete /\ DbfNoCR) =>
    /\ DbfNamesReturned
    /\ \A r \in 1..Len(dbfSrc.rows) : \A c \in 1..Len(dbfSrc.fields) :
         (DbfFits(r, c) /\ ~IsScientific(DbfWritten(r, c))) =>
           DbfReturnedText(r, c, DbfWritten(r, c))

\* every character of the table is one byte in the table's encoding, so the
\* decoded text has one character per byte
DbfOneBytePerChar ==
  \/ DbfSingleByte
  \/ /\ \A c \in 1..Len(dbfSrc.fields) :
          \A k \in 1..Len(dbfSrc.fields[c].name) : dbfSrc.fields[c].name[k] < 128
     /\ \A r \in 1..Len(dbfSrc.rows) : \A c \in 1..Len(dbfSrc.fields) :
          \A k \in 1..Len(DbfWritten(r, c)) : DbfWritten(r, c)[k] < 128

\* the text the table holds in row r, field c: the value written, cut to the
\* width of the field, without the padding
DbfStored(r, c) ==
  Trim(SubSeq(DbfWritten(r, c), 1,
              IF Len(DbfWritten(r, c)) < dbfSrc.fields[c].fieldLength
                THEN Len(DbfWritten(r, c)) ELSE dbfSrc.fields[c].fieldLength))

AllDigits(t) == \A k \in 1..Len(t) : t[k] \in 48..57

\* one digit, a dot, eleven digits, e or E, a plus sign, three digits
SciForm(t) ==
  /\ Len(t) = 18
  /\ AllDigits(SubSeq(t, 1, 1))
  /\ SubSeq(t, 2, 2) = <<46>>
  /\ AllDigits(SubSeq(t, 3, 13))
  /\ SubSeq(t, 14, 15) \in { <<101, 43>>, <<69, 43>> }
  /\ AllDigits(SubSeq(t, 16, 18))

\* the value record r of the returned file holds under the name of field c
DbfReturned(r, c) == dbfFile.records[r][dbfSrc.fields[c].name]

\* C19: a field value is returned as a number exactly when the trimmed text of
\* the field is one digit, a dot, eleven digits, e or E, a plus sign and three
\* digits; the text of every other field, plain integers, plain decimals and
\* negative numbers among them, is returned as a string, as it is.
C19_NumberIffScientificForm ==
  (dbfPc = "returned" /\ DbfOneBytePerChar /\ DbfComplete /\ DbfNoCR) =>
    \A r \in 1..Len(dbfSrc.rows) : \A c \in 1..Len(dbfSrc.fields) :
      /\ r <= Len(dbfFile.records)
      /\ dbfSrc.fields[c].name \in DOMAIN dbfFile.records[r]
      /\ (DbfReturned(r, c)[1] = "number") <=> SciForm(DbfStored(r, c))
      /\ ~SciForm(DbfStored(r, c)) => DbfReturned(r, c) = <<"string", DbfStored(r, c)>>

C19_Witness ==
  /\ dbfPc = "returned"
  /\ DbfComplete
  /\ dbfSrc.encoding = "utf-8"
  /\ Len(dbfSrc.rows) = 2
  /\ DbfWritten(2, 1) = STR_SciUpper
  /\ DbfReturned(2, 1) = <<"number", <<1, 0, 0, 0, 0, 0, 0, 0, 0, 0, 0, 0>>, 3>>
  /\ DbfReturned(1, 1) = <<"string", STR_Taipei>>

\* the decoded text of the 32-byte descriptor of field c
DescriptorText(c) ==
  TextDecode(SubSeq(dbfBytes, 32 * c + 1, 32 * c + 32), dbfSrc.encoding)

\* the leading characters of `text` whose byte-length estimate first reaches
\* `limit`
MeasuredRun(text, limit) == SliceTo(text, Walk(text, limit, dbfOffset, 0, 0))

\* C24: every field name the parse returns is the run of leading decoded
\* characters of that field's descriptor whose accumulated byte-length estimate
\* first reaches 10, without its NUL characters; a name written with multi-byte
\* characters is cut after fewer than 10 characters and is the name written,
\* with no character from beyond the name area.
C24_NameIsMeasuredRun ==
  dbfPc = "returned" =>
    \A c \in 1..Len(dbfFile.fields) :
      /\ dbfFile.fields[c].name = StripNul(MeasuredRun(DescriptorText(c), 10))
      /\ c <= Len(dbfSrc.fields) => dbfFile.fields[c].name = dbfSrc.fields[c].name

\* C25: every iteration of the record loop skips one deletion-flag character
\* and then, field after field, consumes from the record text the smallest
\* number of characters whose byte-length estimate, measured on that field's
\* own text, reaches the fieldLength, so that a field holding multi-byte
\* characters consumes fewer than fieldLength characters and the next field
\* starts right after it; the record pushed holds the values of those slices.
C25_FieldConsumesMeasuredRun ==
  [][(dbfPc = "records" /\ dbfPc' = "records") =>
       LET r == dbfRecordFieldsMeasuringText(dbfFile.fields, 1, <<>>, dbfOffset,
                                             SliceFrom(dbfText, 1))
       IN /\ dbfText' = r.text
          /\ dbfFile'.records = Append(dbfFile.records, RecordObject(r.pairs))]_vars

\* the descriptors read are the k descriptors written, in file order, and the
\* position after the terminator is 32 + 32k + 1
DbfDescriptorsRead ==
  /\ dbfPc # "thrown"
  /\ Len(dbfFile.fields) = Len(dbfSrc.fields)
  /\ \A c \in 1..Len(dbfSrc.fields) :
       /\ dbfFile.fields[c].type = dbfSrc.fields[c].type
       /\ dbfFile.fields[c].fieldLength = dbfSrc.fields[c].fieldLength
  /\ dbfFile.fieldpos = (32 + 32 * Len(dbfSrc.fields)) + 1

\* C26: for every k >= 0, a buffer with k 32-byte descriptors after the 32-byte
\* header followed by the terminator 0x0D yields exactly k fields, in file
\* order, 32 bytes each, and the position after the terminator is 32 + 32k + 1;
\* a table without descriptors yields no fields.
C26_OneFieldPerDescriptor ==
  (dbfPc \in {"records", "returned", "thrown"} /\ dbfSrc.cut = 0) => DbfDescriptorsRead

\* the same for the tables that have at least one descriptor
C26_FieldsWhenAnyDescriptor ==
  (dbfPc \in {"records", "returned", "thrown"} /\ dbfSrc.cut = 0 /\ Len(dbfSrc.fields) >= 1) =>
    DbfDescriptorsRead

DbfTextKinds == {"decoded", "empty", "short", "surrogates", "other"}

\* C27: whether DBFParser.parse returns or throws is decided by the bytes
\* alone: for the buffer of a run that ended, the parse of the same buffer with
\* any other text (the decoded one, the empty one, one cut short, one with
\* lone surrogates, one decoded with another encoding) returns exactly when the
\* run returned.
C27_TextNeverFailsParse ==
  dbfPc \in {"returned", "thrown"} =>
    \A kind \in DbfTextKinds :
      DBFParser_parse(dbfBytes, DbfResponseOf(kind, dbfBytes, dbfSrc.encoding),
                      dbfSrc.arg).ok
        = (dbfPc = "returned")

\* the parse returned the two records the header declares from an empty text:
\* the fields have no name and the values are empty
C27_Witness ==
  /\ dbfPc = "returned"
  /\ dbfSrc.text = "empty"
  /\ dbfResponse = <<>>
  /\ Len(dbfSrc.fields) = 2
  /\ Len(dbfFile.fields) = 2
  /\ dbfFile.fields[1].name = StrUndefined
  /\ Len(dbfFile.records) = 2
  /\ dbfFile.records[2][StrUndefined] = StringValue(<<>>)

\* the response from the character right after the field-descriptor
\* terminator: the bytes up to and including the terminator are the first
\* fieldpos bytes of the buffer
DbfAfterTerminator ==
  SliceFrom(dbfResponse,
            Len(TextDecode(SubSeq(dbfBytes, 1, dbfFile.fieldpos), dbfSrc.encoding)))

\* the descriptors were read and no record yet, from the text decoded with the
\* table's encoding
DbfBeforeFirstRecord ==
  dbfPc = "records" /\ dbfFile.records = <<>> /\ dbfSrc.text = "decoded"

\* C28: the record text the parse walks starts at the character right after
\* the field-descriptor terminator, so the first character it skips is the
\* deletion flag of the first record, whether or not header bytes or record
\* values hold a carriage return.
C28_RecordTextFollowsTerminator ==
  DbfBeforeFirstRecord =>
    /\ dbfText = DbfAfterTerminator
    /\ (Len(dbfSrc.rows) >= 1 /\ dbfSrc.cut = 0) => dbfText[1] = dbfSrc.flag

\* the same when no record value holds a carriage return
C28_FollowsTerminatorWithoutCR ==
  (DbfBeforeFirstRecord /\ DbfNoCR) =>
    /\ dbfText = DbfAfterTerminator
    /\ (Len(dbfSrc.rows) >= 1 /\ dbfSrc.cut = 0) => dbfText[1] = dbfSrc.flag

\* encoding names a caller may hand to the parse
DbfEncodingNames == {"big5", "Big5", "utf-8", "windows-1252"}

\* C29: the result of DBFParser.parse does not depend on its encoding
\* argument: for the buffer and the text of a run that ended, the parse with
\* any encoding name (big5 among them) returns the same file, field list and
\* records alike, or throws the same error, as the run did.
C29_EncodingNameIsImmaterial ==
  dbfPc \in {"returned", "thrown"} =>
    \A e \in DbfEncodingNames : DBFParser_parse(dbfBytes, dbfResponse, e) = DbfOutcome

\* a run with the name big5 (offset 2) on a text with more than two carriage
\* return parts, so that the offset is kept, and with a value of two characters
\* above U+007F, which comes back as written
C29_Witness ==
  /\ dbfPc = "returned"
  /\ dbfSrc.arg = "big5"
  /\ dbfSrc.day = CR
  /\ dbfOffset = 2
  /\ dbfSrc.encoding = "windows-1252"
  /\ Len(dbfSrc.rows) = 2
  /\ Len(dbfFile.records) = 2
  /\ DbfWritten(1, 1) = STR_Accents
  /\ DbfReturned(1, 1) = StringValue(STR_Accents)
  /\ DBFParser_parse(dbfBytes, dbfResponse, "utf-8") = Ok(dbfFile)

\* C30: an object URL that loadshp created for the .shp or the .dbf data of a
\* call exists only while the load it was handed to is pending: once
\* SHPParser.load or DBFParser.load has settled, by resolving or by rejecting,
\* the URL has been revoked.
C30_UrlsRevokedWhenLoadSettles ==
  \A c \in Calls :
    /\ callPc[c] # "shpLoad" => <<c, "shp">> \notin objectURLs
    /\ callPc[c] # "dbfLoad" => <<c, "dbf">> \notin objectURLs

\* the same for the .shp data alone
C30_ShpUrlRevoked ==
  \A c \in Calls : callPc[c] # "shpLoad" => <<c, "shp">> \notin objectURLs

=============================================================================
